---- MODULE Spec2Model ----
(***************************************************************************)
(* Lex_Vision backend (src/backend/backend.py): the concurrent camera      *)
(* streaming layer, the shared detection engine and its lock, and the      *)
(* attendance / camera-health / alert stores.                              *)
(*                                                                         *)
(* Execution units.  Every GET /video_feed/{camera_index} runs the sync    *)
(* generator generate_mjpeg_for_camera in a worker thread (a "stream").    *)
(* The async handlers (POST /process_frame, GET /health, POST /attendance, *)
(* POST /alerts, PATCH /alerts/{id}, PATCH /cameras/{id}) run one at a     *)
(* time on the event loop (process EventLoop); they contain no await after *)
(* the request body is read, so another handler starts only when the       *)
(* running one has returned.  Stream threads interleave with each other    *)
(* and with the running handler at statement level.                        *)
(*                                                                         *)
(* Time is counted in ticks of 1/TicksPerMinute minute; `now` is UTC.      *)
(***************************************************************************)
EXTENDS Integers, Sequences, FiniteSets, TLC

\* ------------------------------------------------------------------ bounds
NumStreams == 2
MaxBodies == 1
MaxFaces == 1
MaxPlaceholders == 1
TicksPerMinute == 1
MaxMinutes == 3
\* per specification: good frames a stream reads, requests the event loop accepts
EngineFrames == 3
EngineRequests == 1
StreamFrames == 6
AttendanceFrames == 3
AttendanceRequests == 2
AlertRequests == 3
BurstRequests == 5
BurstMinutes == 6
ListFrames == 3
ListRequests == 2
RegistryFrames == 3
RegistryRequests == 2
RoleFrames == 3
RoleRequests == 3
SampleBodies == 2
SampleFaces == 2
ViewerFrames == 3
ProcessorFrames == 4

\* ------------------------------------------------------- program constants
AttendanceCap == 1000
AlertCap == 100
detection_interval == 3
status_interval == 30
max_failures_before_reopen == 20
OfflineMinutes == 2
PurgeMinutes == 5
DhakaUtcHours == 6
\* for idx in range(6) of _auto_discover_cameras
DiscoverCount == 6

\* Python None in a string-valued field / in a timestamp field.
None == "None"
NoTime == -1
\* threading.Lock() not held by anyone.
Unlocked == -1

EventLoop == 0
Streams == 1..NumStreams
Procs == Streams \cup {EventLoop}

CameraIndexes == {0, 1}
CLIENT_CAM == "CLIENT-CAM"
CamId(camera_index) == "CAM-" \o ToString(camera_index)
CameraIds == {CamId(i) : i \in CameraIndexes} \cup {CLIENT_CAM}

\* Names recognize_faces can return: "Unknown", or a known employee name.
Names == {"Unknown", "Alice"}
\* (mutant) every name is given the id "Unknown"
known_face_ids_get_Unknown(name) == "Unknown"
\* FaceRecognizer.known_face_ids.get(name, name)
known_face_ids_get(name) == IF name = "Alice" THEN "800001" ELSE name

\* UTC offsets (hours) of the server's local time zone: Asia/Dhaka, or UTC.
ServerUtcHours == {DhakaUtcHours, 0}
MaxTime == MaxMinutes * TicksPerMinute

VARIABLES
    now,                  \* real time (UTC), in ticks
    server_utc_hours,     \* the server's local time zone (fixed per run)
    detector_lock,        \* _detector_lock: Unlocked, or the process holding it
    global_body_detector, \* _global_body_detector: 0 = None, k = the k-th instance built
    global_face_recognizer,
    body_ctor_count,      \* number of BodyDetector instances constructed
    face_ctor_count,      \* number of FaceRecognizer instances constructed
    attendance,           \* _attendance
    alerts,               \* _alerts
    camera_last_seen,     \* _camera_last_seen: insertion-ordered <<id, timestamp>> pairs
    cameras,              \* _cameras: camera id -> [role, status]
    unknown_face_count,   \* _unknown_face_count: minute key -> count
    next_uuid,            \* uuid.uuid4(): the next fresh alert id
    proc,                 \* per process: its position (pc) and its local variables
    att_inserts,          \* records ever inserted in _attendance
    alert_inserts,        \* alerts ever inserted in _alerts
    devices,              \* what cv2.VideoCapture finds on this machine
    open_result,          \* what the last call of an open procedure returned
    sample,               \* one frame's detection outcome and what each pipeline did with it
    processor             \* the OptimizedCameraProcessor: run()'s position and the object's fields

clockVars == <<now, server_utc_hours>>
engineVars == <<detector_lock, global_body_detector, global_face_recognizer,
                body_ctor_count, face_ctor_count>>
attVars == <<attendance, att_inserts>>
alertVars == <<alerts, next_uuid, alert_inserts>>
cameraVars == <<camera_last_seen, cameras>>
captureVars == <<devices, open_result, sample, processor>>
vars == <<clockVars, captureVars, engineVars, attVars, alertVars, cameraVars,
          unknown_face_count, proc>>

\* ------------------------------------------------------------------- time
\* get_bangladesh_timestamp(): the Asia/Dhaka wall clock (the "+06:00" suffix of
\* the ISO string is constant and dropped again by replace(tzinfo=None)).
get_bangladesh_timestamp(t) == t + DhakaUtcHours * 60 * TicksPerMinute
\* datetime.now(): the naive wall clock of the server's own time zone.
datetime_now(t, utc_hours) == t + utc_hours * 60 * TicksPerMinute
\* strftime("%Y-%m-%d-%H-%M") / strptime of it: the minute, and its first tick.
minute_key(local) == local \div TicksPerMinute
minute_start(key) == key * TicksPerMinute

\* ------------------------------------------------------------------ lists
\* (mutant) list.append(x)
InsertHead_Tail(list, x) == list \o <<x>>
\* list.insert(0, x)
InsertHead(list, x) == <<x>> \o list
\* if len(list) > cap: del list[cap:]
Truncate(list, limit) == IF Len(list) > limit THEN SubSeq(list, 1, limit) ELSE list
\* a list of n copies of x
Fill(n, x) == [i \in 1..n |-> x]

\* ----------------------------------------------------------------- _cameras
Roles == {"entry", "exit", "none"}
CameraConfig(id, name, role, status) ==
    [id |-> id, name |-> name, role |-> role, status |-> status]
\* the name a camera is registered with: name_map for "CLIENT-CAM", f"Camera {idx}"
\* for "CAM-{idx}"   (lines 1390-1405, 1322)
CameraName(camera_id) ==
    IF camera_id = CLIENT_CAM THEN "Client Camera"
    ELSE "Camera " \o ToString(CHOOSE i \in 0..(DiscoverCount - 1) : CamId(i) = camera_id)
\* (mutant) the role "none" is recorded as it is
EntryTypeOf_KeepNone(cams, camera_id) ==
    IF camera_id \in DOMAIN cams THEN cams[camera_id].role ELSE None
\* entry_type = _cameras.get(camera_id).role if camera_id in _cameras else None;
\* "none" becomes None
EntryTypeOf(cams, camera_id) ==
    IF camera_id \in DOMAIN cams
    THEN (IF cams[camera_id].role = "none" THEN None ELSE cams[camera_id].role)
    ELSE None

\* _camera_last_seen[camera_id] = ts on an insertion-ordered dict
LastSeenIds(ls) == {ls[i][1] : i \in 1..Len(ls)}
LastSeenPut(ls, camera_id, ts) ==
    IF camera_id \in LastSeenIds(ls)
    THEN [i \in 1..Len(ls) |-> IF ls[i][1] = camera_id THEN <<camera_id, ts>> ELSE ls[i]]
    ELSE Append(ls, <<camera_id, ts>>)
LastSeenOf(ls, camera_id) ==
    LET i == CHOOSE j \in 1..Len(ls) : ls[j][1] = camera_id IN ls[i][2]

\* _cameras[camera_id] = config on a dict
CamerasPut(cams, camera_id, config) ==
    [c \in DOMAIN cams \cup {camera_id} |-> IF c = camera_id THEN config ELSE cams[c]]
\* (mutant) a touch that registers the camera anew every time
TouchedCameras_Reregister(cams, camera_id) ==
    CamerasPut(cams, camera_id,
               CameraConfig(camera_id, CameraName(camera_id), "none", "online"))
\* _update_camera_status(camera_id): the registry after the call
TouchedCameras(cams, camera_id) ==
    IF camera_id \notin DOMAIN cams
    THEN CamerasPut(cams, camera_id,
                    CameraConfig(camera_id, CameraName(camera_id), "none", "online"))
    ELSE [cams EXCEPT ![camera_id].status = "online"]

\* ------------------------------------------------------------- attendance
AttendanceRecord(employee_id, name, camera_id, etype) ==
    [employee_id |-> employee_id, name |-> name, camera_id |-> camera_id,
     entry_type |-> etype]
\* the record a recognised or Unknown face yields (stream, lines 1043-1050)
FaceRecord(name, camera_id, etype) ==
    AttendanceRecord(IF name # "Unknown" THEN known_face_ids_get(name) ELSE "Unknown",
                     name, camera_id, etype)
\* the record a body without a face yields (stream, lines 1057-1063)
BodyRecord(camera_id, etype) == AttendanceRecord("Unknown", "Unknown", camera_id, etype)

\* ------------------------------------------------------------------ alerts
Statuses == {"active", "acknowledged", "resolved"}
Alert(id, title, severity, category, status, by, at, camera_id) ==
    [id |-> id, title |-> title, severity |-> severity, category |-> category,
     status |-> status, acknowledgedBy |-> by, acknowledgedAt |-> at,
     cameraId |-> camera_id]
\* (mutant) _create_alert without the truncation
_create_alert_NoCap(list, id, title, severity, category, camera_id) ==
    InsertHead(list, Alert(id, title, severity, category, "active", None, NoTime, camera_id))
\* _create_alert: the list after inserting a fresh active alert and truncating
_create_alert(list, id, title, severity, category, camera_id) ==
    Truncate(InsertHead(list,
        Alert(id, title, severity, category, "active", None, NoTime, camera_id)),
        AlertCap)
\* (mutant) the sweep does not look for an existing alert
existing_alert_Never(list, camera_id) == FALSE
\* any(a.cameraId == camera_id and a.category == "camera" and a.status == "active")
existing_alert(list, camera_id) ==
    \E i \in 1..Len(list) :
        /\ list[i].cameraId = camera_id
        /\ list[i].category = "camera"
        /\ list[i].status = "active"

\* ------------------------------------------------------------ processes
StreamInit ==
    [pc |-> "idle", dets |-> <<0, 0>>, camera_index |-> 0, cap |-> "none",
     frame_skip |-> 0, failure_count |-> 0,
     last_body_boxes |-> 0, last_face_results |-> <<>>,
     loop_i |-> 0, entry_type |-> None, overlay |-> <<0, <<>>>>,
     last_emitted |-> 0, placeholders |-> 0, detect_frames |-> {},
     init_failed |-> FALSE, tick_records |-> <<>>, record_failed |-> 0]
LoopInit ==
    [pc |-> "idle", dets |-> <<0, 0>>, boxes |-> 0, loop_i |-> 0,
     face_name |-> None, sweep_queue |-> <<>>, sweep_time |-> 0, nreq |-> 0,
     offline_found |-> 0, unknown_seen |-> <<>>, unknown_raised |-> <<>>,
     init_failed |-> FALSE]

\* proc' with process p's record replaced
Goto(p, rec) == proc' = [proc EXCEPT ![p] = rec]
At(p, label) == proc[p].pc = label

\* ------------------------------------------------------------ _detector_lock
\* (mutant) an acquire that does not wait for the holder
CanAcquire_NoWait(lock) == TRUE
\* threading.Lock: acquire() returns only when nobody holds the lock
CanAcquire(lock) == lock = Unlocked
\* (mutant) no `is None` test: every caller constructs
IsNone_Always(g) == TRUE
\* `x is None` on a detector global
IsNone(g) == g = 0

\* (mutant) no except around the initialisation: the exception ends the caller
OnInitError_Uncaught(p) == "closed"
\* where an exception of the initialisation lands: the stream's error placeholder
\* loop (line 928), or process_frame's except -> 500 (line 1257)
OnInitError(p) == IF p = EventLoop THEN "idle" ELSE "error_loop"
\* where the caller of _get_global_detectors continues
AfterDetectors(p) == IF p = EventLoop THEN "pf_touch" ELSE "open"

\* _get_global_detectors, `with _detector_lock:` entered
GD_Acquire(p) ==
    /\ At(p, "gd_lock")
    /\ CanAcquire(detector_lock)
    /\ detector_lock' = p
    /\ Goto(p, [proc[p] EXCEPT !.pc = "gd_body"])
    /\ UNCHANGED <<clockVars, captureVars, global_body_detector, global_face_recognizer,
                   body_ctor_count, face_ctor_count, attVars, alertVars,
                   cameraVars, unknown_face_count>>

\* if _global_body_detector is None: _global_body_detector = BodyDetector(...)
GD_Body(p) ==
    /\ At(p, "gd_body")
    /\ \/ /\ ~IsNone(global_body_detector)
          /\ Goto(p, [proc[p] EXCEPT !.pc = "gd_face"])
          /\ UNCHANGED <<detector_lock, global_body_detector, body_ctor_count>>
       \/ /\ IsNone(global_body_detector)
          /\ body_ctor_count' = body_ctor_count + 1
          /\ global_body_detector' = body_ctor_count + 1
          /\ Goto(p, [proc[p] EXCEPT !.pc = "gd_face"])
          /\ UNCHANGED detector_lock
       \/ \* the constructor raises: the with block releases the lock
          /\ IsNone(global_body_detector)
          /\ detector_lock' = Unlocked
          /\ Goto(p, [proc[p] EXCEPT !.pc = OnInitError(p), !.init_failed = TRUE])
          /\ UNCHANGED <<global_body_detector, body_ctor_count>>
    /\ UNCHANGED <<clockVars, captureVars, global_face_recognizer, face_ctor_count, attVars,
                   alertVars, cameraVars, unknown_face_count>>

\* if _global_face_recognizer is None: _global_face_recognizer = FaceRecognizer(...)
\* and the end of the with block
GD_Face(p) ==
    /\ At(p, "gd_face")
    /\ \/ /\ ~IsNone(global_face_recognizer)
          /\ Goto(p, [proc[p] EXCEPT !.pc = "gd_return"])
          /\ UNCHANGED <<global_face_recognizer, face_ctor_count>>
       \/ /\ IsNone(global_face_recognizer)
          /\ face_ctor_count' = face_ctor_count + 1
          /\ global_face_recognizer' = face_ctor_count + 1
          /\ Goto(p, [proc[p] EXCEPT !.pc = "gd_return"])
       \/ /\ IsNone(global_face_recognizer)
          /\ Goto(p, [proc[p] EXCEPT !.pc = OnInitError(p), !.init_failed = TRUE])
          /\ UNCHANGED <<global_face_recognizer, face_ctor_count>>
    /\ detector_lock' = Unlocked
    /\ UNCHANGED <<clockVars, captureVars, global_body_detector, body_ctor_count, attVars,
                   alertVars, cameraVars, unknown_face_count>>

\* return _global_body_detector, _global_face_recognizer   (outside the with block)
GD_Return(p) ==
    /\ At(p, "gd_return")
    /\ Goto(p, [proc[p] EXCEPT !.pc = AfterDetectors(p),
                               !.dets = <<global_body_detector, global_face_recognizer>>])
    /\ UNCHANGED <<clockVars, captureVars, engineVars, attVars, alertVars, cameraVars,
                   unknown_face_count>>

_get_global_detectors(p) == GD_Acquire(p) \/ GD_Body(p) \/ GD_Face(p) \/ GD_Return(p)

\* ------------------------------------------------------ _update_camera_status
\* (mutant) the touch resolves the camera's active camera alerts
AlertsAfterTouch_Resolves(list, camera_id) ==
    [i \in 1..Len(list) |->
        IF list[i].category = "camera" /\ list[i].cameraId = camera_id
               /\ list[i].status = "active"
        THEN [list[i] EXCEPT !.status = "resolved"]
        ELSE list[i]]
\* the alert list after _update_camera_status: the function has no statement
\* on _alerts (lines 1385-1416)
AlertsAfterTouch(list, camera_id) == list
\* _update_camera_status(camera_id) at time t: the stores after the call
_update_camera_status(camera_id) ==
    /\ camera_last_seen' =
           LastSeenPut(camera_last_seen, camera_id, get_bangladesh_timestamp(now))
    /\ cameras' = TouchedCameras(cameras, camera_id)
    /\ alerts' = AlertsAfterTouch(alerts, camera_id)

\* --------------------------------------------------- generate_mjpeg_for_camera
\* (mutant) the sample falls on the frame after every 3rd
Sampled_OffByOne(frame_no) == frame_no % detection_interval = 1
\* frame_skip % detection_interval == 0
Sampled(frame_no) == frame_no % detection_interval = 0
\* frame_skip % 30 == 0
StatusTick(frame_no) == frame_no % status_interval = 0
\* what the recognition of one region can return: the names of 0..MaxFaces faces
FaceResults == UNION {[1..n -> Names] : n \in 0..MaxFaces}

\* GET /video_feed/{camera_index}: the generator starts (line 918-922)
video_feed_by_camera(s, indexes) ==
    /\ At(s, "idle")
    /\ \E idx \in indexes :
           Goto(s, [proc[s] EXCEPT !.pc = "gd_lock", !.camera_index = idx])
    /\ UNCHANGED <<clockVars, captureVars, engineVars, attVars, alertVars, cameraVars,
                   unknown_face_count>>

\* (mutant) the camera is touched before the capture is opened
OpenCapture_TouchFirst(s) ==
    /\ At(s, "open")
    /\ _update_camera_status(CamId(proc[s].camera_index))
    /\ \/ Goto(s, [proc[s] EXCEPT !.pc = "read", !.cap = "open"])
       \/ Goto(s, [proc[s] EXCEPT !.pc = "error_loop"])
    /\ UNCHANGED <<clockVars, captureVars, engineVars, attVars, next_uuid, alert_inserts, unknown_face_count>>
\* cap, _ = _open_video_capture_by_index(camera_index) and, once it returned a
\* handle, _update_camera_status(camera_id) (lines 924-927); or the open raises
\* (line 928)
OpenCapture(s) ==
    /\ At(s, "open")
    /\ \/ /\ Goto(s, [proc[s] EXCEPT !.pc = "read", !.cap = "open"])
          /\ _update_camera_status(CamId(proc[s].camera_index))
       \/ /\ Goto(s, [proc[s] EXCEPT !.pc = "error_loop"])
          /\ UNCHANGED <<cameraVars, alerts>>
    /\ UNCHANGED <<clockVars, captureVars, engineVars, attVars, next_uuid, alert_inserts, unknown_face_count>>

\* the error placeholder loop (lines 940-944): one more placeholder chunk
ErrorLoop(s) ==
    /\ At(s, "error_loop")
    /\ proc[s].placeholders < MaxPlaceholders
    /\ Goto(s, [proc[s] EXCEPT !.placeholders = @ + 1])
    /\ UNCHANGED <<clockVars, captureVars, engineVars, attVars, alertVars, cameraVars,
                   unknown_face_count>>

\* cap.read() gives a frame (lines 968, 994-1004)
ReadOk(s, max_frames) ==
    /\ At(s, "read")
    /\ proc[s].cap = "open"
    /\ proc[s].frame_skip < max_frames
    /\ LET n == proc[s].frame_skip + 1 IN
       /\ Goto(s, [proc[s] EXCEPT !.failure_count = 0, !.frame_skip = n,
                       !.tick_records = <<>>,
                       !.pc = IF Sampled(n) THEN "detect_lock" ELSE "overlay"])
       /\ IF StatusTick(n)
          THEN _update_camera_status(CamId(proc[s].camera_index))
          ELSE UNCHANGED <<cameraVars, alerts>>
    /\ UNCHANGED <<clockVars, captureVars, engineVars, attVars, next_uuid, alert_inserts, unknown_face_count>>

\* (mutant) the reopen one failure late
ReachedThreshold_Late(n) == n > max_failures_before_reopen
\* if failure_count >= max_failures_before_reopen:   (line 971)
ReachedThreshold(n) == n >= max_failures_before_reopen

\* cap.read() gives no frame (lines 969-976, 991-993)
ReadFail(s) ==
    /\ At(s, "read")
    /\ LET n == proc[s].failure_count + 1 IN
       IF ReachedThreshold(n)
       THEN Goto(s, [proc[s] EXCEPT !.failure_count = n, !.cap = "released",
                                    !.pc = "reopen"])
       ELSE Goto(s, [proc[s] EXCEPT !.failure_count = n])
    /\ UNCHANGED <<clockVars, captureVars, engineVars, attVars, alertVars, cameraVars,
                   unknown_face_count>>

\* (mutant) a failed reopen ends the stream
AfterReopenFailure_Ends == "closed"
\* except Exception: "If reopen fails, keep trying"; failure_count = 0; continue
\* (lines 986-993)
AfterReopenFailure == "read"

\* the reopen attempt (lines 977-990)
Reopen(s) ==
    /\ At(s, "reopen")
    /\ \/ Goto(s, [proc[s] EXCEPT !.failure_count = 0, !.cap = "open", !.pc = "read"])
       \/ Goto(s, [proc[s] EXCEPT !.failure_count = 0, !.pc = AfterReopenFailure])
    /\ UNCHANGED <<clockVars, captureVars, engineVars, attVars, alertVars, cameraVars,
                   unknown_face_count>>

\* (mutant) an engine call that raises leaves the lock with the stream
OnEngineRaise_KeepsLock(s) == s
\* the lock after an engine call raised inside `with _detector_lock:` (lines
\* 1009, 1023): the with statement releases it
OnEngineRaise(s) == Unlocked

\* with _detector_lock: entered, body_det.detect(frame, eff_conf) called
\* (lines 1009-1010)
DetectAcquire(s) ==
    /\ At(s, "detect_lock")
    /\ CanAcquire(detector_lock)
    /\ detector_lock' = s
    /\ Goto(s, [proc[s] EXCEPT !.pc = "detect",
                               !.detect_frames = @ \cup {proc[s].frame_skip}])
    /\ UNCHANGED <<clockVars, captureVars, global_body_detector, global_face_recognizer,
                   body_ctor_count, face_ctor_count, attVars, alertVars,
                   cameraVars, unknown_face_count>>

\* last_body_boxes = body_det.detect(frame, eff_conf); last_face_results = []
\* (lines 1010-1012), or detect raises (lines 1074-1080)
Detect(s) ==
    /\ At(s, "detect")
    /\ \/ /\ \E b \in 0..MaxBodies :
                 Goto(s, [proc[s] EXCEPT !.last_body_boxes = b,
                              !.last_face_results = <<>>,
                              !.loop_i = 1, !.pc = "faces_loop"])
          /\ detector_lock' = Unlocked
       \/ /\ Goto(s, [proc[s] EXCEPT !.cap = "released", !.pc = "closed"])
          /\ detector_lock' = OnEngineRaise(s)
    /\ UNCHANGED <<clockVars, captureVars, global_body_detector, global_face_recognizer,
                   body_ctor_count, face_ctor_count, attVars, alertVars,
                   cameraVars, unknown_face_count>>

\* for bx in last_body_boxes: ... if region.size == 0: continue   (lines 1013-1020)
FacesLoop(s) ==
    /\ At(s, "faces_loop")
    /\ \/ /\ proc[s].loop_i > proc[s].last_body_boxes
          /\ Goto(s, [proc[s] EXCEPT !.loop_i = 0, !.pc = "overlay"])
       \/ /\ proc[s].loop_i <= proc[s].last_body_boxes
          /\ Goto(s, [proc[s] EXCEPT !.loop_i = @ + 1])
       \/ /\ proc[s].loop_i <= proc[s].last_body_boxes
          /\ Goto(s, [proc[s] EXCEPT !.pc = "faces_lock"])
    /\ UNCHANGED <<clockVars, captureVars, engineVars, attVars, alertVars, cameraVars,
                   unknown_face_count>>

\* with _detector_lock:   (line 1023)
FacesAcquire(s) ==
    /\ At(s, "faces_lock")
    /\ CanAcquire(detector_lock)
    /\ detector_lock' = s
    /\ Goto(s, [proc[s] EXCEPT !.pc = "faces"])
    /\ UNCHANGED <<clockVars, captureVars, global_body_detector, global_face_recognizer,
                   body_ctor_count, face_ctor_count, attVars, alertVars,
                   cameraVars, unknown_face_count>>

\* locs = face_rec.detect_faces(region); if adjusted:
\* last_face_results.extend(face_rec.recognize_faces(frame, adjusted))
\* (lines 1024-1028), or one of the two calls raises
Faces(s) ==
    /\ At(s, "faces")
    /\ \/ /\ \E names \in FaceResults :
                 Goto(s, [proc[s] EXCEPT !.last_face_results = @ \o names,
                              !.loop_i = @ + 1, !.pc = "faces_loop"])
          /\ detector_lock' = Unlocked
       \/ /\ Goto(s, [proc[s] EXCEPT !.cap = "released", !.pc = "closed"])
          /\ detector_lock' = OnEngineRaise(s)
    /\ UNCHANGED <<clockVars, captureVars, global_body_detector, global_face_recognizer,
                   body_ctor_count, face_ctor_count, attVars, alertVars,
                   cameraVars, unknown_face_count>>

\* (mutant) the frame is yielded as soon as the overlay is drawn
AfterOverlay_SkipEncode(frame_no) == "yielded"
\* after the overlay: the attendance block on a sampled frame (line 1033), else
\* the encoding (line 1069)
AfterOverlay(frame_no) == IF Sampled(frame_no) THEN "record" ELSE "encode"
\* frame = body_det.draw_boxes(frame, last_body_boxes)
\* frame = face_rec.draw_faces(frame, last_face_results)   (lines 1030-1031)
Overlay(s) ==
    /\ At(s, "overlay")
    /\ Goto(s, [proc[s] EXCEPT
           !.overlay = <<proc[s].last_body_boxes, proc[s].last_face_results>>,
           !.pc = AfterOverlay(proc[s].frame_skip)])
    /\ UNCHANGED <<clockVars, captureVars, engineVars, attVars, alertVars, cameraVars,
                   unknown_face_count>>

\* (mutant) one Unknown record per body whenever there are bodies
RecordBranch_BodiesFirst(faces, bodies) ==
    IF bodies > 0 THEN "body_insert"
    ELSE IF faces # <<>> THEN "face_insert"
    ELSE "encode"
\* if last_face_results: ... else: if last_body_boxes: ...   (lines 1040, 1053-1055)
RecordBranch(faces, bodies) ==
    IF faces # <<>> THEN "face_insert"
    ELSE IF bodies > 0 THEN "body_insert"
    ELSE "encode"
\* entry_type = ... and the choice of the branch (lines 1036-1040, 1055)
RecordStart(s) ==
    /\ At(s, "record")
    /\ Goto(s, [proc[s] EXCEPT
           !.entry_type = EntryTypeOf(cameras, CamId(proc[s].camera_index)),
           !.loop_i = 1,
           !.pc = RecordBranch(proc[s].last_face_results, proc[s].last_body_boxes)])
    /\ UNCHANGED <<clockVars, captureVars, engineVars, attVars, alertVars, cameraVars,
                   unknown_face_count>>

\* _attendance.insert(0, AttendanceRecord(...)) for one face (lines 1043-1050)
FaceInsert(s) ==
    /\ At(s, "face_insert")
    /\ attendance' = InsertHead(attendance,
           FaceRecord(proc[s].last_face_results[proc[s].loop_i],
                      CamId(proc[s].camera_index), proc[s].entry_type))
    /\ att_inserts' = att_inserts + 1
    /\ Goto(s, [proc[s] EXCEPT !.pc = "face_trunc",
                               !.tick_records = Append(@, attendance'[1])])
    /\ UNCHANGED <<clockVars, captureVars, engineVars, alertVars, cameraVars, unknown_face_count>>

\* if len(_attendance) > 1000: del _attendance[1000:]   (lines 1051-1052, in the loop)
FaceTrunc(s) ==
    /\ At(s, "face_trunc")
    /\ attendance' = Truncate(attendance, AttendanceCap)
    /\ IF proc[s].loop_i < Len(proc[s].last_face_results)
       THEN Goto(s, [proc[s] EXCEPT !.loop_i = @ + 1, !.pc = "face_insert"])
       ELSE Goto(s, [proc[s] EXCEPT !.loop_i = 0, !.entry_type = None, !.pc = "encode"])
    /\ UNCHANGED <<clockVars, captureVars, engineVars, att_inserts, alertVars, cameraVars,
                   unknown_face_count>>

\* _attendance.insert(0, AttendanceRecord("Unknown", ...)) for one body (1056-1063)
BodyInsert(s) ==
    /\ At(s, "body_insert")
    /\ attendance' = InsertHead(attendance,
           BodyRecord(CamId(proc[s].camera_index), proc[s].entry_type))
    /\ att_inserts' = att_inserts + 1
    /\ IF proc[s].loop_i < proc[s].last_body_boxes
       THEN Goto(s, [proc[s] EXCEPT !.loop_i = @ + 1,
                                    !.tick_records = Append(@, attendance'[1])])
       ELSE Goto(s, [proc[s] EXCEPT !.loop_i = 0, !.pc = "body_trunc",
                                    !.tick_records = Append(@, attendance'[1])])
    /\ UNCHANGED <<clockVars, captureVars, engineVars, alertVars, cameraVars, unknown_face_count>>

\* if len(_attendance) > 1000: del _attendance[1000:]   (lines 1064-1065, after the loop)
BodyTrunc(s) ==
    /\ At(s, "body_trunc")
    /\ attendance' = Truncate(attendance, AttendanceCap)
    /\ Goto(s, [proc[s] EXCEPT !.entry_type = None, !.pc = "encode"])
    /\ UNCHANGED <<clockVars, captureVars, engineVars, att_inserts, alertVars, cameraVars,
                   unknown_face_count>>

\* (mutant) no try around the recording block: the exception ends the stream
OnRecordError_Aborts == "closed"
\* except Exception: pass   (lines 1066-1067): on to the encoding of the frame
OnRecordError == "encode"
\* a statement of the recording block raises (lines 1034-1067)
RecordFail(s) ==
    /\ proc[s].pc \in {"record", "face_insert", "face_trunc", "body_insert", "body_trunc"}
    /\ Goto(s, [proc[s] EXCEPT !.loop_i = 0, !.entry_type = None,
                               !.record_failed = proc[s].frame_skip,
                               !.cap = IF OnRecordError = "closed" THEN "released" ELSE @,
                               !.pc = OnRecordError])
    /\ UNCHANGED <<clockVars, captureVars, engineVars, attVars, alertVars, cameraVars,
                   unknown_face_count>>

\* ret, jpeg = cv2.imencode(...); if not ret: continue; yield ...  (lines 1069-1073)
Encode(s) ==
    /\ At(s, "encode")
    /\ \/ Goto(s, [proc[s] EXCEPT !.last_emitted = proc[s].frame_skip,
                       !.pc = "yielded"])
       \/ Goto(s, [proc[s] EXCEPT !.pc = "read"])
    /\ UNCHANGED <<clockVars, captureVars, engineVars, attVars, alertVars, cameraVars,
                   unknown_face_count>>

\* the consumer takes the chunk and asks for the next one
Resume(s) ==
    /\ At(s, "yielded")
    /\ Goto(s, [proc[s] EXCEPT !.pc = "read"])
    /\ UNCHANGED <<clockVars, captureVars, engineVars, attVars, alertVars, cameraVars,
                   unknown_face_count>>

\* the consumer disconnects: GeneratorExit at the yield, finally: cap.release()
\* (lines 1078-1080)
Disconnect(s) ==
    /\ At(s, "yielded")
    /\ Goto(s, [proc[s] EXCEPT !.cap = "released", !.pc = "closed"])
    /\ UNCHANGED <<clockVars, captureVars, engineVars, attVars, alertVars, cameraVars,
                   unknown_face_count>>

\* the start of a stream, up to its read loop
StreamStart(s, indexes) ==
    \/ video_feed_by_camera(s, indexes)
    \/ _get_global_detectors(s)
    \/ OpenCapture(s)
    \/ ErrorLoop(s)

\* one sampled or reused frame, from the read to the yield
StreamFrame(s, max_frames) ==
    \/ ReadOk(s, max_frames)
    \/ DetectAcquire(s) \/ Detect(s)
    \/ FacesLoop(s) \/ FacesAcquire(s) \/ Faces(s)
    \/ Overlay(s)
    \/ RecordStart(s) \/ FaceInsert(s) \/ FaceTrunc(s) \/ BodyInsert(s) \/ BodyTrunc(s)
    \/ Encode(s) \/ Resume(s) \/ Disconnect(s)

\* the failure path of the read loop
StreamRecovery(s) == ReadFail(s) \/ Reopen(s)

generate_mjpeg_for_camera(s, indexes, max_frames) ==
    StreamStart(s, indexes) \/ StreamFrame(s, max_frames) \/ StreamRecovery(s)

\* ------------------------------------------------------- POST /process_frame
E == EventLoop
\* the event loop is free to start a handler
Idle(max_requests) == At(E, "idle") /\ proc[E].nreq < max_requests
\* the running handler returns its response
Return(rec) == [rec EXCEPT !.pc = "idle", !.loop_i = 0, !.boxes = 0, !.face_name = None]

\* the bucket of minute `key` after `_unknown_face_count[minute_key] += 1`
BumpedCount(counts, key) == IF key \in DOMAIN counts THEN counts[key] + 1 ELSE 1
CountPut(counts, key, n) ==
    [k \in DOMAIN counts \cup {key} |-> IF k = key THEN n ELSE counts[k]]
\* keys_to_delete: strptime(k) < current_time - timedelta(minutes=5)  (lines 1245-1249)
Purged(counts, current_time) ==
    [k \in {j \in DOMAIN counts :
              ~(minute_start(j) < current_time - PurgeMinutes * TicksPerMinute)}
       |-> counts[k]]
multiple_unknown_count == 3
single_unknown_count == 1
\* (mutant) the medium alert at every count from the 3rd on
UnknownSeverity_FromThird(n) ==
    IF n >= multiple_unknown_count THEN "medium"
    ELSE IF n = single_unknown_count THEN "low"
    ELSE None
\* which alert the n-th unknown face of a minute raises (lines 1225-1242)
UnknownSeverity(n) ==
    IF n = multiple_unknown_count THEN "medium"
    ELSE IF n = single_unknown_count THEN "low"
    ELSE None
UnknownTitle(n) ==
    IF n = multiple_unknown_count THEN "Multiple Unknown Faces Detected"
    ELSE "Unknown Face Detected"

\* the request arrives; an undecodable image is answered 400 (lines 1135-1146)
PF_Start(max_requests) ==
    /\ Idle(max_requests)
    /\ \/ Goto(E, [proc[E] EXCEPT !.nreq = @ + 1])
       \/ Goto(E, [proc[E] EXCEPT !.nreq = @ + 1, !.pc = "gd_lock"])
    /\ UNCHANGED <<clockVars, captureVars, engineVars, attVars, alertVars, cameraVars,
                   unknown_face_count>>

\* _update_camera_status("CLIENT-CAM")   (line 1149)
PF_Touch ==
    /\ At(E, "pf_touch")
    /\ _update_camera_status(CLIENT_CAM)
    /\ Goto(E, [proc[E] EXCEPT !.pc = "pf_detect_lock"])
    /\ UNCHANGED <<clockVars, captureVars, engineVars, attVars, next_uuid, alert_inserts, unknown_face_count>>

\* with _detector_lock:   (line 1152)
PF_DetectAcquire ==
    /\ At(E, "pf_detect_lock")
    /\ CanAcquire(detector_lock)
    /\ detector_lock' = E
    /\ Goto(E, [proc[E] EXCEPT !.pc = "pf_detect"])
    /\ UNCHANGED <<clockVars, captureVars, global_body_detector, global_face_recognizer,
                   body_ctor_count, face_ctor_count, attVars, alertVars,
                   cameraVars, unknown_face_count>>

\* body_boxes = body_detector.detect(img)   (line 1153); no box: the response
\* (line 1251); detect raises: 500 (line 1257)
PF_Detect ==
    /\ At(E, "pf_detect")
    /\ detector_lock' = Unlocked
    /\ \/ \E b \in 1..MaxBodies :
              Goto(E, [proc[E] EXCEPT !.boxes = b, !.loop_i = 1, !.pc = "pf_rec_lock"])
       \/ Goto(E, Return(proc[E]))
    /\ UNCHANGED <<clockVars, captureVars, global_body_detector, global_face_recognizer,
                   body_ctor_count, face_ctor_count, attVars, alertVars,
                   cameraVars, unknown_face_count>>

\* with _detector_lock:   (line 1164)
PF_RecAcquire ==
    /\ At(E, "pf_rec_lock")
    /\ CanAcquire(detector_lock)
    /\ detector_lock' = E
    /\ Goto(E, [proc[E] EXCEPT !.pc = "pf_rec"])
    /\ UNCHANGED <<clockVars, captureVars, global_body_detector, global_face_recognizer,
                   body_ctor_count, face_ctor_count, attVars, alertVars,
                   cameraVars, unknown_face_count>>

\* face_results = face_recognizer.recognize_faces(body_crop); face_name is the
\* first name, "Unknown" without a face (lines 1165-1173); or the call raises
PF_Recognize ==
    /\ At(E, "pf_rec")
    /\ detector_lock' = Unlocked
    /\ \/ \E name \in Names :
              Goto(E, [proc[E] EXCEPT !.face_name = name, !.pc = "pf_insert"])
       \/ Goto(E, Return(proc[E]))
    /\ UNCHANGED <<clockVars, captureVars, global_body_detector, global_face_recognizer,
                   body_ctor_count, face_ctor_count, attVars, alertVars,
                   cameraVars, unknown_face_count>>

\* _attendance.insert(0, attendance_record)   (lines 1195-1208)
PF_Insert ==
    /\ At(E, "pf_insert")
    /\ attendance' = InsertHead(attendance,
           FaceRecord(proc[E].face_name, CLIENT_CAM, EntryTypeOf(cameras, CLIENT_CAM)))
    /\ att_inserts' = att_inserts + 1
    /\ Goto(E, [proc[E] EXCEPT !.pc = "pf_trunc"])
    /\ UNCHANGED <<clockVars, captureVars, engineVars, alertVars, cameraVars, unknown_face_count>>

\* history of the minute buckets, never purged: the unknown faces counted in
\* bucket `key` (seen) and the severities of the alerts raised for it (raised)
Counted(rec, key, severity) ==
    [rec EXCEPT
        !.unknown_seen = CountPut(@, key, BumpedCount(@, key)),
        !.unknown_raised =
            [k \in DOMAIN @ \cup {key} |->
                LET old == IF k \in DOMAIN @ THEN @[k] ELSE <<>>
                IN  IF k = key /\ severity # None THEN Append(old, severity) ELSE old]]

\* del _attendance[1000:], the unknown-face bucket and its alerts, and the next
\* box or the response (lines 1210-1255)
PF_Trunc ==
    /\ At(E, "pf_trunc")
    /\ attendance' = Truncate(attendance, AttendanceCap)
    /\ IF proc[E].face_name = "Unknown"
       THEN LET current_time == datetime_now(now, server_utc_hours)
                key == minute_key(current_time)
                n == BumpedCount(unknown_face_count, key)
            IN  /\ unknown_face_count' =
                       Purged(CountPut(unknown_face_count, key, n), current_time)
                /\ IF UnknownSeverity(n) # None
                   THEN /\ alerts' = _create_alert(alerts, next_uuid, UnknownTitle(n),
                                        UnknownSeverity(n), "face_recognition", CLIENT_CAM)
                        /\ next_uuid' = next_uuid + 1
                        /\ alert_inserts' = alert_inserts + 1
                   ELSE UNCHANGED alertVars
       ELSE UNCHANGED <<unknown_face_count, alertVars>>
    /\ LET key == minute_key(datetime_now(now, server_utc_hours))
           rec == IF proc[E].face_name = "Unknown"
                  THEN Counted(proc[E], key,
                               UnknownSeverity(BumpedCount(unknown_face_count, key)))
                  ELSE proc[E]
       IN  IF proc[E].loop_i < proc[E].boxes
           THEN Goto(E, [rec EXCEPT !.loop_i = @ + 1, !.face_name = None,
                                    !.pc = "pf_rec_lock"])
           ELSE Goto(E, Return(rec))
    /\ UNCHANGED <<clockVars, captureVars, engineVars, att_inserts, cameraVars>>

process_frame(max_requests) ==
    \/ PF_Start(max_requests)
    \/ _get_global_detectors(E)
    \/ PF_Touch
    \/ PF_DetectAcquire \/ PF_Detect
    \/ PF_RecAcquire \/ PF_Recognize
    \/ PF_Insert \/ PF_Trunc

\* ----------------------------------------------------------- POST /attendance
PostedRecords ==
    {AttendanceRecord("800001", "Alice", CamId(0), "entry"),
     AttendanceRecord("Unknown", "Unknown", CLIENT_CAM, None)}
create_attendance(max_requests) ==
    /\ Idle(max_requests)
    /\ \E record \in PostedRecords :
           attendance' = Truncate(InsertHead(attendance, record), AttendanceCap)
    /\ att_inserts' = att_inserts + 1
    /\ Goto(E, [proc[E] EXCEPT !.nreq = @ + 1])
    /\ UNCHANGED <<clockVars, captureVars, engineVars, alertVars, cameraVars, unknown_face_count>>

\* --------------------------------------------------------------- POST /alerts
\* ids a client gives its alerts (the ids of _create_alert are the uuids 1, 2, ...)
PostedIds == {-1}
PostedAlerts ==
    {Alert(id, "posted", "high", category, status, None, NoTime, CamId(0)) :
        id \in PostedIds, category \in {"camera", "system"},
        status \in {"active", "acknowledged"}}
create_alert(max_requests) ==
    /\ Idle(max_requests)
    /\ \E alert \in PostedAlerts :
           alerts' = Truncate(InsertHead(alerts, alert), AlertCap)
    /\ alert_inserts' = alert_inserts + 1
    /\ Goto(E, [proc[E] EXCEPT !.nreq = @ + 1])
    /\ UNCHANGED <<clockVars, captureVars, engineVars, attVars, next_uuid, cameraVars,
                   unknown_face_count>>

\* ------------------------------------------------------ PATCH /alerts/{alert_id}
\* the alert list after update_alert: the first alert with that id is updated
UpdatedAlerts(list, alert_id, status_update, acknowledged_by, ts) ==
    IF \A i \in 1..Len(list) : list[i].id # alert_id
    THEN list
    ELSE LET i == CHOOSE j \in 1..Len(list) :
                      /\ list[j].id = alert_id
                      /\ \A k \in 1..(j - 1) : list[k].id # alert_id
         IN  [list EXCEPT ![i] =
                [@ EXCEPT
                   !.status = IF status_update # None THEN status_update ELSE @,
                   !.acknowledgedBy = IF acknowledged_by # None THEN acknowledged_by ELSE @,
                   !.acknowledgedAt = IF acknowledged_by # None THEN ts ELSE @]]
update_alert(max_requests) ==
    /\ Idle(max_requests)
    /\ \E alert_id \in {alerts[i].id : i \in 1..Len(alerts)} \cup PostedIds,
          status_update \in Statuses \cup {None},
          acknowledged_by \in {None, "admin"} :
           alerts' = UpdatedAlerts(alerts, alert_id, status_update, acknowledged_by,
                                   get_bangladesh_timestamp(now))
    /\ Goto(E, [proc[E] EXCEPT !.nreq = @ + 1])
    /\ UNCHANGED <<clockVars, captureVars, engineVars, attVars, next_uuid, alert_inserts,
                   cameraVars, unknown_face_count>>

\* ------------------------------------------------- PATCH /cameras/{camera_id}
\* if camera_id in _cameras: if role: _cameras[camera_id].role = role
\* (lines 1354-1361; an unknown id is answered 404)
RoleUpdated(cams, camera_id, role) ==
    IF camera_id \in DOMAIN cams /\ role # None
    THEN [cams EXCEPT ![camera_id].role = role]
    ELSE cams
update_camera(max_requests) ==
    /\ Idle(max_requests)
    /\ \E camera_id \in CameraIds, role \in Roles \cup {None} :
           cameras' = RoleUpdated(cameras, camera_id, role)
    /\ Goto(E, [proc[E] EXCEPT !.nreq = @ + 1])
    /\ UNCHANGED <<clockVars, captureVars, engineVars, attVars, alertVars, camera_last_seen,
                   unknown_face_count>>

\* ---------------------------------- GET /cameras/discover, _auto_discover_cameras
\* the indices of range(6) whose cv2.VideoCapture(idx) is opened and yields a frame
Discoverable(world) == {i \in 0..(DiscoverCount - 1) : world.plain[i] = "frame"}
\* _cameras after the loop of _auto_discover_cameras (lines 1310-1338)
Discovered(cams, world) ==
    LET found == {CamId(i) : i \in Discoverable(world)}
    IN  [c \in DOMAIN cams \cup found |->
            IF c \notin found THEN cams[c]
            ELSE IF c \in DOMAIN cams THEN [cams[c] EXCEPT !.status = "online"]
            ELSE CameraConfig(c, CameraName(c), "none", "online")]
discover_cameras(max_requests) ==
    /\ Idle(max_requests)
    /\ cameras' = Discovered(cameras, devices)
    /\ Goto(E, [proc[E] EXCEPT !.nreq = @ + 1])
    /\ UNCHANGED <<clockVars, captureVars, engineVars, attVars, alertVars, camera_last_seen,
                   unknown_face_count>>

\* ------------------------------------------- GET /health, _check_camera_offline
\* current_time = datetime.now(); list(_camera_last_seen.items())  (lines 1421-1423)
health(max_requests) ==
    /\ Idle(max_requests)
    /\ Goto(E, [proc[E] EXCEPT !.nreq = @ + 1,
                    !.sweep_queue = camera_last_seen,
                    !.sweep_time = datetime_now(now, server_utc_hours),
                    !.pc = IF camera_last_seen = <<>> THEN "idle" ELSE "sweep"])
    /\ UNCHANGED <<clockVars, captureVars, engineVars, attVars, alertVars, cameraVars,
                   unknown_face_count>>

\* time_diff > timedelta(minutes=2)   (lines 1425-1429)
IsOffline(current_time, last_seen) ==
    current_time - last_seen > OfflineMinutes * TicksPerMinute
\* _cameras[camera_id].status = "offline" if camera_id in _cameras  (lines 1431-1432)
MarkedOffline(cams, camera_id) ==
    IF camera_id \in DOMAIN cams
    THEN [cams EXCEPT ![camera_id].status = "offline"]
    ELSE cams

\* one iteration of the for loop over the snapshot (lines 1423-1450)
SweepStep ==
    /\ At(E, "sweep")
    /\ LET camera_id == Head(proc[E].sweep_queue)[1]
           last_seen == Head(proc[E].sweep_queue)[2]
           rest == Tail(proc[E].sweep_queue)
       IN  /\ IF IsOffline(proc[E].sweep_time, last_seen)
              THEN /\ cameras' = MarkedOffline(cameras, camera_id)
                   /\ IF ~existing_alert(alerts, camera_id)
                      THEN /\ alerts' = _create_alert(alerts, next_uuid,
                                            "Camera Offline: " \o camera_id,
                                            "medium", "camera", camera_id)
                           /\ next_uuid' = next_uuid + 1
                           /\ alert_inserts' = alert_inserts + 1
                      ELSE UNCHANGED alertVars
              ELSE UNCHANGED <<cameras, alertVars>>
           /\ Goto(E, [proc[E] EXCEPT !.sweep_queue = rest,
                           !.offline_found =
                               IF IsOffline(proc[E].sweep_time, last_seen)
                               THEN @ + 1 ELSE @,
                           !.pc = IF rest = <<>> THEN "idle" ELSE "sweep"])
    /\ UNCHANGED <<clockVars, captureVars, engineVars, attVars, camera_last_seen, unknown_face_count>>

_check_camera_offline(max_requests) == health(max_requests) \/ SweepStep

\* ------------------------------------------------------------------ the clock
TickTo(max_time) ==
    /\ now < max_time
    /\ now' = now + 1
    /\ UNCHANGED <<server_utc_hours, captureVars, engineVars, attVars, alertVars,
                   cameraVars, unknown_face_count, proc>>
Tick == TickTo(MaxTime)

\* ------------------------------------------------------ the open procedures
\* What cv2.VideoCapture(...) gives: the constructor raises, a capture that is
\* not opened, one that is opened but yields no frame, one that yields frames.
Outcomes == {"raises", "closed", "noframe", "frame"}
\* for idx in range(0, 6)
ProbeCount == 6
ProbeIndexes == 0..(ProbeCount - 1)
\* The machines considered.  source: CAMERA_SOURCE ("unset", or what opening it
\* gives); requested: the camera index asked for (CAMERA_INDEX for
\* _open_video_capture); native: what the platform's own backends give for that
\* index, in the order tried ([CAP_DSHOW] on Windows, [CAP_V4L2, CAP_GSTREAMER]
\* elsewhere); plain: what cv2.VideoCapture(idx) gives for each index.
Worlds ==
    [source : {"unset"} \cup Outcomes,
     requested : CameraIndexes,
     native : UNION {[1..n -> Outcomes] : n \in 1..2},
     plain : [ProbeIndexes -> Outcomes \ {"raises"}]]
NoDevices ==
    [source |-> "unset", requested |-> 0, native |-> <<"closed">>,
     plain |-> [i \in ProbeIndexes |-> "closed"]]

\* what the attempts of `for backend in backends` give, in order: the platform's
\* backends, then None (the default backend)
BackendOutcomes(world, idx) == world.native \o <<world.plain[idx]>>
\* what the attempts of `for idx in range(0, 6)` give, in order
ProbeOutcomes(world) == [k \in 1..ProbeCount |-> world.plain[k - 1]]
\* if cap.isOpened(): return ...
IsOpened == {"noframe", "frame"}
\* if cap.isOpened(): ret, _ = cap.read(); if ret: return ...
IsOpenedAndRead == {"frame"}
\* the first attempt from the i-th on whose outcome passes the test (0: none does;
\* a raising attempt is skipped by `except Exception: continue`)
RECURSIVE FirstAccepted(_, _, _)
FirstAccepted(outcomes, accepted, i) ==
    IF i > Len(outcomes) THEN 0
    ELSE IF outcomes[i] \in accepted THEN i
    ELSE FirstAccepted(outcomes, accepted, i + 1)

\* what a call returns: the handle of a device (how it was found, its index,
\* what reading from it gives), or the RuntimeError
\* unreleased: the captures the call opened, did not return and did not release
NoResult ==
    [opener |-> "none", ok |-> FALSE, via |-> "none", index |-> -1, device |-> "none",
     unreleased |-> 0]
Raised(opener) == [NoResult EXCEPT !.opener = opener]
Handle(opener, via, index, device) ==
    [opener |-> opener, ok |-> TRUE, via |-> via, index |-> index, device |-> device,
     unreleased |-> 0]
\* a capture that is opened and whose cap.read() raises: `except Exception:
\* continue` (lines 911-913) goes to the next attempt past cap.release()
ReadRaises == "readraises"
\* the attempts among the first upto that left their capture open
Unreleased(outcomes, upto) ==
    Cardinality({i \in 1..upto : outcomes[i] = ReadRaises})
\* the attempts made before the one that returned (k), or all of them (k = 0)
Failed(outcomes, k) == IF k > 0 THEN k - 1 ELSE Len(outcomes)

\* (mutant) the open by index probing the other indices as _open_video_capture does
_open_video_capture_by_index_Probing(world, camera_index) ==
    LET tries == BackendOutcomes(world, camera_index)
        k == FirstAccepted(tries, IsOpenedAndRead, 1)
        j == FirstAccepted(ProbeOutcomes(world), IsOpenedAndRead, 1)
    IN  IF k > 0 THEN Handle("by_index", "backend", camera_index, tries[k])
        ELSE IF j > 0 THEN Handle("by_index", "probe", j - 1, ProbeOutcomes(world)[j])
        ELSE Raised("by_index")
\* _open_video_capture_by_index(camera_index)   (lines 885-914)
_open_video_capture_by_index(world, camera_index) ==
    LET tries == BackendOutcomes(world, camera_index)
        k == FirstAccepted(tries, IsOpenedAndRead, 1)
        left == Unreleased(tries, Failed(tries, k))
    IN  IF k > 0
        THEN [Handle("by_index", "backend", camera_index, tries[k]) EXCEPT !.unreleased = left]
        ELSE [Raised("by_index") EXCEPT !.unreleased = left]

\* _open_video_capture()   (lines 820-883)
_open_video_capture(world) ==
    LET tries == BackendOutcomes(world, world.requested)
        k == FirstAccepted(tries, IsOpenedAndRead, 1)
        j == FirstAccepted(ProbeOutcomes(world), IsOpenedAndRead, 1)
        left == Unreleased(tries, Failed(tries, k))
        left_probing == left + Unreleased(ProbeOutcomes(world), Failed(ProbeOutcomes(world), j))
    IN  IF world.source = "raises" THEN Raised("default")
        ELSE IF world.source \in IsOpened
        THEN Handle("default", "source", -1, world.source)
        ELSE IF k > 0
        THEN [Handle("default", "backend", world.requested, tries[k]) EXCEPT !.unreleased = left]
        ELSE IF j > 0
        THEN [Handle("default", "probe", j - 1, ProbeOutcomes(world)[j])
                 EXCEPT !.unreleased = left_probing]
        ELSE [Raised("default") EXCEPT !.unreleased = left_probing]

\* a call of _open_video_capture_by_index on this machine
OpenByIndexCall ==
    /\ open_result = NoResult
    /\ open_result' = _open_video_capture_by_index(devices, devices.requested)
    /\ UNCHANGED <<devices, sample, processor, clockVars, engineVars, attVars, alertVars, cameraVars,
                   unknown_face_count, proc>>
\* a call of _open_video_capture on this machine
OpenDefaultCall ==
    /\ open_result = NoResult
    /\ open_result' = _open_video_capture(devices)
    /\ UNCHANGED <<devices, sample, processor, clockVars, engineVars, attVars, alertVars, cameraVars,
                   unknown_face_count, proc>>

\* ---------------------------------------------- OptimizedCameraProcessor
\* The object after __init__ (optimized_camera.py lines 19-61): the capture is
\* open, no frame and no results yet, no thread, running False.
\* latest_results: "none" (None), or the results of the worker's last run, with
\* or without face results.
ProcessorInit ==
    [pc |-> "new", running |-> FALSE, thread |-> "none", cap |-> "open",
     latest_frame |-> 0, latest_results |-> "none", shown |-> 0]
\* what process_frame_optimized gives the worker: results, or an exception
\* (latest_results = None, lines 129-134)
WorkerResults == {"nofaces", "faces", "none"}
\* draw_results unpacks every face result into three names (line 150);
\* recognize_faces returns (face_location, name) pairs, so the unpacking raises
\* whenever there is a face result; any other drawing can raise as well
DrawOutcomes(results) == IF results = "faces" THEN {"raises"} ELSE {"drawn", "raises"}

\* run(): self.running = True; the processing thread is started (lines 183-187)
RunStart ==
    /\ processor.pc = "new"
    /\ processor' = [processor EXCEPT !.running = TRUE, !.thread = "alive", !.pc = "read"]
\* ret, frame = self.cap.read(); if not ret: break; self.latest_frame = frame
\* (lines 193-202)
RunRead ==
    /\ processor.pc = "read"
    /\ \/ /\ processor.latest_frame < ProcessorFrames
          /\ processor' = [processor EXCEPT !.latest_frame = @ + 1, !.pc = "draw"]
       \/ processor' = [processor EXCEPT !.pc = "cleanup"]
\* if self.latest_results is not None: result_frame = self.draw_results(...)
\* else: result_frame = frame   (lines 205-209); an exception leaves run()
RunDraw ==
    /\ processor.pc = "draw"
    /\ IF processor.latest_results = "none"
       THEN processor' = [processor EXCEPT !.pc = "show"]
       ELSE \E o \in DrawOutcomes(processor.latest_results) :
                processor' = [processor EXCEPT !.pc = IF o = "raises" THEN "raised" ELSE "show"]
\* cv2.imshow(...); key = cv2.waitKey(1) & 0xFF; if key == ord('q'): break
\* (lines 216-222); an exception of imshow leaves run()
RunShow ==
    /\ processor.pc = "show"
    /\ \/ processor' = [processor EXCEPT !.shown = processor.latest_frame, !.pc = "read"]
       \/ processor' = [processor EXCEPT !.shown = processor.latest_frame, !.pc = "cleanup"]
       \/ processor' = [processor EXCEPT !.pc = "raised"]
\* self.running = False   (line 229)
RunStop ==
    /\ processor.pc = "cleanup"
    /\ processor' = [processor EXCEPT !.running = FALSE, !.pc = "join"]
\* self.processing_thread.join() returns once the thread has ended (lines 230-231)
RunJoin ==
    /\ processor.pc = "join"
    /\ processor.thread = "ended"
    /\ processor' = [processor EXCEPT !.pc = "release"]
\* self.cap.release(); cv2.destroyAllWindows()   (lines 233-234)
RunRelease ==
    /\ processor.pc = "release"
    /\ processor' = [processor EXCEPT !.cap = "released", !.pc = "done"]
\* processing_worker, one turn of `while self.running:` (lines 125-135)
WorkerTurn ==
    /\ processor.thread = "alive"
    /\ processor.running
    /\ processor.latest_frame > 0
    /\ \E r \in WorkerResults : processor' = [processor EXCEPT !.latest_results = r]
\* processing_worker: self.running is False, the loop and the thread end
WorkerEnd ==
    /\ processor.thread = "alive"
    /\ ~processor.running
    /\ processor' = [processor EXCEPT !.thread = "ended"]
processing_worker == WorkerTurn \/ WorkerEnd
\* OptimizedCameraProcessor.run with its worker thread
run ==
    /\ \/ RunStart \/ RunRead \/ RunDraw \/ RunShow \/ RunStop \/ RunJoin \/ RunRelease
       \/ processing_worker
    /\ UNCHANGED <<devices, open_result, sample, clockVars, engineVars, attVars, alertVars,
                   cameraVars, unknown_face_count, proc>>

\* ------------------------------------------- the two pipelines on one frame
\* What the detectors find in a frame: its bodies in the order detect returns
\* them, each with the names of the faces found in its region.
RegionFaces == UNION {[1..n -> Names] : n \in 0..SampleFaces}
FrameOutcomes == UNION {[1..n -> RegionFaces] : n \in 0..SampleBodies}
\* last_face_results after the loop of extend calls (lines 1012-1028)
RECURSIVE ExtendedFaces(_)
ExtendedFaces(bodies) ==
    IF bodies = <<>> THEN <<>> ELSE Head(bodies) \o ExtendedFaces(Tail(bodies))
\* the records a stream inserts for a sampled frame, in the order of the
\* inserts (lines 1040-1063)
StreamRecords(bodies, camera_id, etype) ==
    LET faces == ExtendedFaces(bodies)
    IN  IF faces # <<>>
        THEN [i \in 1..Len(faces) |-> FaceRecord(faces[i], camera_id, etype)]
        ELSE [i \in 1..Len(bodies) |-> BodyRecord(camera_id, etype)]
\* face_name of a body: the first face of face_results, "Unknown" without one
\* (lines 1168-1173)
FirstFaceName(faces) == IF faces # <<>> THEN faces[1] ELSE "Unknown"
\* the records POST /process_frame inserts for a frame, in the order of the
\* inserts (lines 1158-1208)
FrameRecords(bodies, etype) ==
    [i \in 1..Len(bodies) |-> FaceRecord(FirstFaceName(bodies[i]), CLIENT_CAM, etype)]
\* how often the pipeline runs `_unknown_face_count[minute_key] += 1` for the
\* frame: never in a stream; in POST /process_frame once per body whose
\* face_name is "Unknown" (lines 1214-1222)
StreamBucketIncrements(bodies) == 0
FrameBucketIncrements(bodies) ==
    Cardinality({i \in 1..Len(bodies) : FirstFaceName(bodies[i]) = "Unknown"})

NotRun == [ran |-> FALSE, records |-> <<>>, increments |-> 0]
Ran(records, n) == [ran |-> TRUE, records |-> records, increments |-> n]
NoSample == [bodies |-> <<>>, tick |-> NotRun, request |-> NotRun]
\* a stream's sampled tick on the frame
SampleStreamTick ==
    /\ ~sample.tick.ran
    /\ sample' = [sample EXCEPT !.tick =
           Ran(StreamRecords(sample.bodies, CamId(0), None),
               StreamBucketIncrements(sample.bodies))]
    /\ UNCHANGED <<devices, open_result, processor, clockVars, engineVars, attVars, alertVars,
                   cameraVars, unknown_face_count, proc>>
\* POST /process_frame on the frame
SampleProcessFrame ==
    /\ ~sample.request.ran
    /\ sample' = [sample EXCEPT !.request =
           Ran(FrameRecords(sample.bodies, None), FrameBucketIncrements(sample.bodies))]
    /\ UNCHANGED <<devices, open_result, processor, clockVars, engineVars, attVars, alertVars,
                   cameraVars, unknown_face_count, proc>>

\* -------------------------------------------------------------- initial states
\* The stores as POST /attendance and POST /alerts can have filled them before
\* the run starts: att_n records and alert_n alerts.
FillerRecord == AttendanceRecord("Unknown", "Unknown", CLIENT_CAM, None)
FillerAlert == Alert(-1, "posted", "low", "system", "resolved", None, NoTime, None)
InitStores(att_n, alert_n) ==
    /\ now = 0
    /\ server_utc_hours \in ServerUtcHours
    /\ detector_lock = Unlocked
    /\ global_body_detector = 0
    /\ global_face_recognizer = 0
    /\ body_ctor_count = 0
    /\ face_ctor_count = 0
    /\ attendance = Fill(att_n, FillerRecord)
    /\ att_inserts = att_n
    /\ alerts = Fill(alert_n, FillerAlert)
    /\ alert_inserts = alert_n
    /\ next_uuid = 1
    /\ camera_last_seen = <<>>
    /\ cameras = <<>>
    /\ unknown_face_count = <<>>
    /\ proc = [p \in Procs |-> IF p = E THEN LoopInit ELSE StreamInit]
InitWith(att_n, alert_n) ==
    /\ InitStores(att_n, alert_n)
    /\ devices = NoDevices
    /\ open_result = NoResult
    /\ processor = ProcessorInit
    /\ sample = NoSample

\* ---------------------------------------------------------------------------
\* The shared engine: two streams and POST /process_frame compete for
\* _detector_lock (the streams' read-failure path touches neither the lock nor
\* the detectors and is left to SpecStream).
InitEngine == InitWith(0, 0) /\ server_utc_hours = DhakaUtcHours
NextEngine ==
    \/ \E s \in Streams : StreamStart(s, {0}) \/ StreamFrame(s, EngineFrames)
    \/ process_frame(EngineRequests)
SpecEngine == InitEngine /\ [][NextEngine]_vars

\* C1: at most one process at a time is inside a shared-engine call
\* (BodyDetector.detect, FaceRecognizer.detect_faces / recognize_faces), and a
\* process inside such a call holds _detector_lock.
InEngineCall(p) == proc[p].pc \in {"detect", "faces", "pf_detect", "pf_rec"}
WaitsForLock(p) ==
    proc[p].pc \in {"gd_lock", "detect_lock", "faces_lock", "pf_detect_lock", "pf_rec_lock"}
C1_EngineMutex ==
    /\ \A p, q \in Procs : InEngineCall(p) /\ InEngineCall(q) => p = q
    /\ \A p \in Procs : InEngineCall(p) => detector_lock = p
\* a stream is inside an engine call while another stream and POST /process_frame
\* wait for the lock
C1_Witness ==
    \E s, r \in Streams :
        /\ s # r
        /\ InEngineCall(s)
        /\ proc[r].pc \in {"detect_lock", "faces_lock"}
        /\ proc[E].pc \in {"pf_detect_lock", "pf_rec_lock"}

\* C2: each detector is constructed at most once, and every caller of
\* _get_global_detectors returns the same pair of instances (the globals).
HasDetectors(p) == proc[p].dets # <<0, 0>>
C2_SingleConstruction ==
    /\ body_ctor_count <= 1
    /\ face_ctor_count <= 1
    /\ \A p, q \in Procs : HasDetectors(p) /\ HasDetectors(q) => proc[p].dets = proc[q].dets
    /\ \A p \in Procs :
           HasDetectors(p) => proc[p].dets = <<global_body_detector, global_face_recognizer>>
\* both streams and POST /process_frame have returned from _get_global_detectors
C2_Witness ==
    /\ \A p \in Procs : HasDetectors(p)
    /\ body_ctor_count = 1
    /\ face_ctor_count = 1

\* ---------------------------------------------------------------------------
\* One stream on its own: start, read loop with the failure path, sampling.
InitStream == InitWith(0, 0) /\ server_utc_hours = DhakaUtcHours
NextStream == generate_mjpeg_for_camera(1, {0}, StreamFrames)
SpecStream == InitStream /\ [][NextStream]_vars

\* C10: body_det.detect is called on exactly the good frames 3, 6, 9, ... of a
\* stream; last_body_boxes and last_face_results change only inside the
\* detection of such a frame (never on another frame or on a failed read), and
\* the overlay of every frame is drawn from them.
DetectionDue(s) ==
    {k \in 1..proc[s].frame_skip :
        /\ Sampled(k)
        /\ ~(k = proc[s].frame_skip /\ At(s, "detect_lock"))}
DrawnFromLast(s) ==
    proc[s].pc \in {"record", "face_insert", "face_trunc", "body_insert",
                    "body_trunc", "encode", "yielded"}
        => proc[s].overlay = <<proc[s].last_body_boxes, proc[s].last_face_results>>
LastResultsChange(s) ==
    \/ proc'[s].last_body_boxes # proc[s].last_body_boxes
    \/ proc'[s].last_face_results # proc[s].last_face_results
C10_SamplingCadence ==
    /\ [](\A s \in Streams : proc[s].detect_frames = DetectionDue(s))
    /\ [](\A s \in Streams : DrawnFromLast(s))
    /\ [][\A s \in Streams :
            LastResultsChange(s) =>
                /\ proc[s].pc \in {"detect", "faces"}
                /\ proc[s].frame_skip % detection_interval = 0
                /\ proc'[s].frame_skip = proc[s].frame_skip]_vars
\* a stream has read six good frames, with unreadable frames in between, has run
\* the detection on frames 3 and 6 and has yielded frame 6 with its overlay
C10_Witness ==
    /\ proc[1].frame_skip = 6
    /\ proc[1].detect_frames = {3, 6}
    /\ proc[1].last_emitted = 6
    /\ proc[1].last_body_boxes > 0
    /\ proc[1].failure_count > 0

\* ---------------------------------------------------------------------------
\* The attendance list at its cap: a stream, POST /process_frame and
\* POST /attendance insert into a list that already holds 999 or 1000 records.
InitAttendance ==
    /\ \E n \in {AttendanceCap - 1, AttendanceCap} : InitWith(n, 0)
    /\ server_utc_hours = DhakaUtcHours
NextAttendance ==
    \/ StreamStart(1, {0}) \/ StreamFrame(1, AttendanceFrames)
    \/ process_frame(AttendanceRequests)
    \/ create_attendance(AttendanceRequests)
SpecAttendance == InitAttendance /\ [][NextAttendance]_vars

\* C3: in every reachable state, the states between an insert and its truncation
\* included, _attendance holds at most 1000 records.
C3_AttendanceCap == Len(attendance) <= AttendanceCap

\* ---------------------------------------------------------------------------
\* Camera health and alerts: a stream touches its camera when it opens it,
\* GET /health sweeps (and calls _create_alert), POST /alerts and
\* PATCH /alerts/{id} write the list, and time passes.  The list starts empty
\* or full.
InitAlerts == \E n \in {0, AlertCap} : InitWith(0, n)
NextAlerts ==
    \/ StreamStart(1, {0})
    \/ _check_camera_offline(AlertRequests)
    \/ create_alert(AlertRequests)
    \/ update_alert(AlertRequests)
    \/ Tick
SpecAlerts == InitAlerts /\ [][NextAlerts]_vars

\* ---------------------------------------------------------------------------
\* Every writer of _alerts: the unknown-face alerts of POST /process_frame, the
\* offline alerts of the sweep (of CLIENT-CAM, which process_frame touches) and
\* POST /alerts.  The list starts empty or full.
InitAlertCap == InitAlerts /\ server_utc_hours = DhakaUtcHours
NextAlertCap ==
    \/ process_frame(AlertRequests)
    \/ _check_camera_offline(AlertRequests)
    \/ create_alert(AlertRequests)
    \/ Tick
SpecAlertCap == InitAlertCap /\ [][NextAlertCap]_vars

\* C4: after any sequence of _create_alert calls and POST /alerts requests,
\* _alerts holds at most 100 alerts.
C4_AlertCap == Len(alerts) <= AlertCap
\* _create_alert has inserted an unknown-face alert into a full list
C4_Witness ==
    /\ alert_inserts > AlertCap
    /\ Len(alerts) = AlertCap
    /\ alerts[1].id > 0
    /\ alerts[1].category = "face_recognition"

\* the positions of the active camera alerts of camera c
ActiveCameraAlerts(c) ==
    {i \in 1..Len(alerts) :
        /\ alerts[i].category = "camera"
        /\ alerts[i].status = "active"
        /\ alerts[i].cameraId = c}
\* C5: after any sequence of touches, sweeps, POST /alerts and PATCH /alerts/{id},
\* the list holds at most one active camera alert per camera id.
C5_OneActiveCameraAlert ==
    \A c \in CameraIds : Cardinality(ActiveCameraAlerts(c)) <= 1

\* an offline alert a sweep created for camera c (its id is a uuid of
\* _create_alert) is in the list with one of the given statuses
SweepAlertOf(c, statuses) ==
    \E i \in 1..Len(alerts) :
        /\ alerts[i].id > 0
        /\ alerts[i].category = "camera"
        /\ alerts[i].cameraId = c
        /\ alerts[i].status \in statuses
\* this step is a sweep creating a camera alert for camera c
SweepCreates(c) ==
    /\ next_uuid' = next_uuid + 1
    /\ alerts'[1].id = next_uuid
    /\ alerts'[1].category = "camera"
    /\ alerts'[1].cameraId = c
\* C6: while a sweep's offline alert for a camera is active or acknowledged, no
\* sweep creates a further camera alert for that camera.
C6_NoDuplicateUntilResolved ==
    [][\A c \in CameraIds :
          SweepAlertOf(c, {"active", "acknowledged"}) => ~SweepCreates(c)]_vars
\* C6 (amended): while a sweep's offline alert for a camera is in the list with
\* status active, no sweep creates a further camera alert for that camera.
C6_NoDuplicateWhileActive ==
    [][\A c \in CameraIds : SweepAlertOf(c, {"active"}) => ~SweepCreates(c)]_vars
\* two sweeps found the camera silent and the one alert of the first is still active
C6_Witness ==
    /\ proc[E].offline_found >= 2
    /\ At(E, "idle")
    /\ next_uuid = 2
    /\ SweepAlertOf(CamId(0), {"active"})

\* the time that really passed between the touch that wrote last_seen and the
\* start of the sweep that read current_time
RealAge(current_time, last_seen) ==
    (current_time - server_utc_hours * 60 * TicksPerMinute)
        - (last_seen - DhakaUtcHours * 60 * TicksPerMinute)
\* what the claim asks of the sweep's step for the camera at the head of the
\* snapshot
SweepAsClaimed ==
    LET camera_id == Head(proc[E].sweep_queue)[1]
        last_seen == Head(proc[E].sweep_queue)[2]
        silent == RealAge(proc[E].sweep_time, last_seen) > OfflineMinutes * TicksPerMinute
    IN  /\ cameras' = IF silent THEN MarkedOffline(cameras, camera_id) ELSE cameras
        /\ alerts' = IF silent /\ ActiveCameraAlerts(camera_id) = {}
                     THEN Truncate(InsertHead(alerts,
                              Alert(next_uuid, "Camera Offline: " \o camera_id, "medium", "camera",
                                    "active", None, NoTime, camera_id)), AlertCap)
                     ELSE alerts
\* C7: a sweep sets offline exactly the cameras whose last-seen age exceeds
\* 2 minutes, and adds one camera/medium/active alert for each of them that has
\* no active camera alert, and no other alert.
C7_SweepExact ==
    [][At(E, "sweep") /\ proc'[E] # proc[E] => SweepAsClaimed]_vars

\* active < acknowledged < resolved
Rank(status) ==
    IF status = "active" THEN 0 ELSE IF status = "acknowledged" THEN 1 ELSE 2
\* C8: no operation moves an alert's status backwards (a step that inserts no
\* alert keeps every alert at its position).
C8_StatusForwardOnly ==
    [][alert_inserts' = alert_inserts =>
          \A i \in 1..Len(alerts) :
              Rank(alerts'[i].status) >= Rank(alerts[i].status)]_vars

\* C9: every acknowledged alert has an acknowledger and an acknowledgement time.
C9_AcknowledgedHasAcknowledger ==
    \A i \in 1..Len(alerts) :
        alerts[i].status = "acknowledged" =>
            /\ alerts[i].acknowledgedBy # None
            /\ alerts[i].acknowledgedAt # NoTime

\* ---------------------------------------------------------------------------
\* The unknown-face buckets: POST /process_frame requests over several minutes.
InitBurst == InitWith(0, 0)
NextBurst ==
    \/ process_frame(BurstRequests)
    \/ TickTo(BurstMinutes * TicksPerMinute)
SpecBurst == InitBurst /\ [][NextBurst]_vars

\* the alerts the claim expects for a bucket that counted n unknown faces
ExpectedRaised(n) ==
    IF n = 0 THEN <<>> ELSE IF n < 3 THEN <<"low">> ELSE <<"low", "medium">>
NoStaleBucket(counts, current_time) ==
    \A key \in DOMAIN counts :
        ~(minute_start(key) < current_time - PurgeMinutes * TicksPerMinute)
\* C13: when a run of the detect/recognize pipeline ends, with or without an
\* unknown face in it, the bucket map holds no bucket older than 5 minutes.
C13_PurgedOnEachRun ==
    [][proc[E].pc \in {"pf_detect", "pf_rec", "pf_trunc"} /\ proc'[E].pc = "idle"
          => NoStaleBucket(unknown_face_count', datetime_now(now', server_utc_hours'))]_vars

\* this step is stream s inserting the record of a face labelled Unknown
StreamLogsUnknown(s) ==
    /\ At(s, "face_insert")
    /\ proc[s].last_face_results[proc[s].loop_i] = "Unknown"
    /\ proc'[s].pc = "face_trunc"
\* C12: an unknown face found on a sampled frame of a stream increments the
\* unknown-face bucket of the current minute, as one found by POST /process_frame.
C12_StreamCountsUnknown ==
    [][\A s \in Streams :
          StreamLogsUnknown(s) =>
              LET key == minute_key(datetime_now(now, server_utc_hours))
              IN  /\ key \in DOMAIN unknown_face_count'
                  /\ unknown_face_count'[key] = BumpedCount(unknown_face_count, key)]_vars

\* C14: a detect or recognize call that raises on a sampled frame does not end
\* the stream: whatever an engine call does, the stream goes on to the overlay
\* or the next region, never to its end.
C14_EngineErrorKeepsStream ==
    [][\A s \in Streams :
          At(s, "detect") \/ At(s, "faces") => proc'[s].pc # "closed"]_vars

\* process p is inside a constructor of _get_global_detectors and this step is
\* the constructor raising
CtorRaises(p) ==
    /\ At(p, "gd_body") \/ At(p, "gd_face")
    /\ ~proc[p].init_failed
    /\ proc'[p].init_failed
\* some caller's construction has failed
SomeInitFailed == \E p \in Procs : proc[p].init_failed
\* C15: once a construction has failed nothing is constructed and no caller is
\* handed detectors any more.
C15_ConstructionFailureFatal ==
    [][SomeInitFailed =>
          /\ body_ctor_count' = body_ctor_count
          /\ face_ctor_count' = face_ctor_count
          /\ \A p \in Procs : proc'[p].dets = proc[p].dets]_vars
\* C15 (amended): a failed construction fails its caller only (the stream goes
\* to its error placeholder loop, the request is answered 500), releases the
\* lock and leaves the failed detector unset, so that the next caller constructs.
C15_ConstructionFailureLocal ==
    [][\A p \in Procs :
          CtorRaises(p) =>
              /\ proc'[p].pc = IF p = EventLoop THEN "idle" ELSE "error_loop"
              /\ detector_lock' = Unlocked
              /\ global_body_detector' = 0 \/ global_face_recognizer' = 0
              /\ global_body_detector' = global_body_detector
              /\ global_face_recognizer' = global_face_recognizer
              /\ \A q \in Procs \ {p} : proc'[q] = proc[q]]_vars
\* a caller was handed a constructed pair after another caller's construction
\* had failed
C15_Witness ==
    \E p, q \in Procs :
        /\ p # q
        /\ proc[p].init_failed
        /\ proc[p].dets = <<0, 0>>
        /\ HasDetectors(q)
        /\ ~proc[q].init_failed

\* this step is a read of stream s that gives no frame
ReadFails(s) == At(s, "read") /\ proc'[s].failure_count > proc[s].failure_count
\* this step is a read of stream s that gives a frame
ReadSucceeds(s) == At(s, "read") /\ proc'[s].frame_skip > proc[s].frame_skip
\* C16: between reads the failure counter is in 0..19; a reopen is attempted
\* exactly at 20, with the capture released; an unreadable frame adds one, a good
\* frame and a reopen attempt reset the counter to 0.
C16_FailureCounter ==
    /\ [](\A s \in Streams :
             /\ At(s, "read") => proc[s].failure_count \in 0..(max_failures_before_reopen - 1)
             /\ At(s, "reopen") => /\ proc[s].failure_count = max_failures_before_reopen
                                   /\ proc[s].cap = "released")
    /\ [][\A s \in Streams :
             /\ ReadFails(s) =>
                   /\ proc'[s].failure_count = proc[s].failure_count + 1
                   /\ proc'[s].pc = IF proc'[s].failure_count = max_failures_before_reopen
                                    THEN "reopen" ELSE "read"
             /\ ReadSucceeds(s) => proc'[s].failure_count = 0
             /\ At(s, "reopen") /\ proc'[s] # proc[s] =>
                   /\ proc'[s].failure_count = 0
                   /\ proc'[s].pc = "read"]_vars
\* the 20th consecutive failure after good frames: the capture is released and
\* the reopen is about to be attempted
C16_Witness ==
    /\ At(1, "reopen")
    /\ proc[1].failure_count = max_failures_before_reopen
    /\ proc[1].cap = "released"
    /\ proc[1].frame_skip > 0

\* The stream thread keeps running: its failure path is taken whenever it stays
\* enabled.
SpecRecovery == SpecStream /\ WF_vars(StreamRecovery(1))
\* stream s reads from a capture its last reopen attempt did not replace
AfterFailedReopen(s) == At(s, "read") /\ proc[s].cap = "released"
\* C17: unreadable frames and failed reopens never end the stream: each such
\* step leaves it in its read loop, and after a failed reopen it goes on to
\* the next reopen attempt.
C17_RecoveryNeverEnds ==
    /\ [][\A s \in Streams :
             ReadFails(s) \/ (At(s, "reopen") /\ proc'[s] # proc[s])
                 => proc'[s].pc \in {"read", "reopen"}]_vars
    /\ \A s \in {1} : AfterFailedReopen(s) ~> At(s, "reopen")
\* 19 more unreadable frames after a failed reopen: the stream is still reading
C17_Witness ==
    /\ AfterFailedReopen(1)
    /\ proc[1].failure_count = max_failures_before_reopen - 1

\* stream s is in the error placeholder loop because its capture did not open
OpenFailed(s) == At(s, "error_loop") /\ ~proc[s].init_failed
\* C18: a stream whose capture did not open stays in the error placeholder loop
\* and has written nothing to the registry, the last-seen map, the attendance
\* list or the alert list.
C18_OpenFailurePlaceholder ==
    /\ [](OpenFailed(1) =>
             /\ cameras = <<>>
             /\ camera_last_seen = <<>>
             /\ attendance = <<>>
             /\ alerts = <<>>
             /\ proc[1].cap = "none"
             /\ proc[1].frame_skip = 0)
    /\ [][\A s \in Streams : At(s, "error_loop") => proc'[s].pc = "error_loop"]_vars
\* the open failed after the detectors were handed out, and placeholders went out
C18_Witness ==
    /\ OpenFailed(1)
    /\ HasDetectors(1)
    /\ proc[1].placeholders = MaxPlaceholders

\* ---------------------------------------------------------------------------
\* The open procedures, each called once on every machine of Worlds.
InitOpen ==
    /\ InitStores(0, 0)
    /\ server_utc_hours = DhakaUtcHours
    /\ devices \in Worlds
    /\ open_result = NoResult
    /\ processor = ProcessorInit
    /\ sample = NoSample
NextOpen == OpenByIndexCall \/ OpenDefaultCall
SpecOpen == InitOpen /\ [][NextOpen]_vars

\* C19: a handle an open procedure returns is one a frame was read from: an
\* opened device that yields no frame is never returned.
C19_HandleYieldsFrame == open_result.ok => open_result.device = "frame"

\* the requested index yields a frame with none of the backends
RequestedFails(world) ==
    FirstAccepted(BackendOutcomes(world, world.requested), {"frame"}, 1) = 0
\* the result is the first of the indices 0..5 that yields a frame, or the
\* error when none does
IsFirstProbed(result, world) ==
    LET j == FirstAccepted(ProbeOutcomes(world), {"frame"}, 1)
    IN  IF j > 0 THEN result.ok /\ result.index = j - 1 /\ result.device = "frame"
        ELSE ~result.ok
\* C20: when the requested index opens with no backend, the open procedure of
\* the streams returns the first of the indices 0..5 that yields a frame and
\* fails only if none does.
C20_ByIndexFallsBack ==
    open_result.opener = "by_index" /\ RequestedFails(devices)
        => IsFirstProbed(open_result, devices)
\* C20 (amended): when the requested index opens with no backend, the open
\* procedure of the streams fails without probing another index; it is
\* _open_video_capture that (with no source configured) falls back to the first
\* of the indices 0..5 that yields a frame and fails only if none does.
C20_OnlyDefaultFallsBack ==
    /\ open_result.opener = "by_index" /\ RequestedFails(devices) => ~open_result.ok
    /\ open_result.opener = "default" /\ devices.source = "unset" /\ RequestedFails(devices)
           => IsFirstProbed(open_result, devices)
\* index 1 was asked for and opens with no backend while index 0 yields frames:
\* the open by index has failed
C20_Witness ==
    /\ open_result.opener = "by_index"
    /\ ~open_result.ok
    /\ devices.requested = 1
    /\ devices.plain[0] = "frame"
    /\ RequestedFails(devices)

\* ---------------------------------------------------------------------------
\* the recording block of the tick of stream s is behind it
TickRecorded(s) == proc[s].pc \in {"encode", "yielded"}
InitLists ==
    /\ \E n \in {0, AttendanceCap}, a \in {0, AlertCap} : InitWith(n, a)
    /\ server_utc_hours = DhakaUtcHours
NextLists ==
    \/ StreamStart(1, {0}) \/ StreamFrame(1, ListFrames)
    \/ process_frame(ListRequests)
    \/ create_attendance(ListRequests)
    \/ create_alert(ListRequests)
SpecLists == InitLists /\ [][NextLists]_vars

\* list a is the first Len(a) elements of list b
IsPrefix(a, b) == Len(a) <= Len(b) /\ a = SubSeq(b, 1, Len(a))
\* a step from `list` to `after` that inserted `n` elements put the new element
\* at index 0 and kept the others in their order, dropping elements at the
\* tail only
NewestFirstStep(list, after, n) ==
    IF n = 0 THEN IsPrefix(after, list)
    ELSE /\ n = 1
         /\ after # <<>>
         /\ IsPrefix(Tail(after), list)
\* C22: every step that writes _attendance or _alerts puts the new element at
\* index 0, keeps the surviving elements in their order and removes elements
\* from the tail only.
C22_NewestFirst ==
    [][/\ NewestFirstStep(attendance, attendance', att_inserts' - att_inserts)
       /\ NewestFirstStep(alerts, alerts', alert_inserts' - alert_inserts)]_vars
\* both lists were written by two different writers: the newest element of each
\* is at the head, the one before comes second
C22_Witness ==
    /\ Len(attendance) = 2
    /\ attendance[1].name = "Alice"
    /\ attendance[1].camera_id = CamId(0)
    /\ attendance[2].camera_id = CLIENT_CAM
    /\ Len(alerts) = AlertCap
    /\ alert_inserts = AlertCap + 2
    /\ alerts[1].id = -1
    /\ alerts[1].category = "camera"
    /\ alerts[2].id = 1

\* ---------------------------------------------------------------------------
\* The camera registry: two streams of camera 0 (the first one reads frames),
\* PATCH /cameras/{id}, GET /cameras/discover and GET /health, while time
\* passes.  Camera 0 yields frames to the discovery; the server runs on Dhaka
\* time.
RegistryDevices == [NoDevices EXCEPT !.plain[0] = "frame"]
InitRegistry ==
    /\ InitStores(0, 0)
    /\ server_utc_hours = DhakaUtcHours
    /\ devices = RegistryDevices
    /\ open_result = NoResult
    /\ processor = ProcessorInit
    /\ sample = NoSample
NextRegistry ==
    \/ \E s \in Streams : StreamStart(s, {0})
    \/ StreamFrame(1, RegistryFrames)
    \/ update_camera(RegistryRequests)
    \/ discover_cameras(RegistryRequests)
    \/ _check_camera_offline(RegistryRequests)
    \/ Tick
SpecRegistry == InitRegistry /\ [][NextRegistry]_vars

\* this step is stream s calling _update_camera_status: after the open, or on
\* a 30th frame
StreamTouches(s) ==
    \/ At(s, "open") /\ proc'[s].pc = "read"
    \/ /\ At(s, "read")
       /\ proc'[s].frame_skip = proc[s].frame_skip + 1
       /\ StatusTick(proc'[s].frame_skip)
\* C25: a touch sets the camera's last-seen time to the current time; it
\* registers an unseen camera with role "none" and status "online"; of a known
\* camera it sets the status to "online" and leaves id, name and role as they
\* are; it writes no other camera.
C25_Touch ==
    [][\A s \in Streams :
          StreamTouches(s) =>
              LET c == CamId(proc[s].camera_index)
              IN  /\ c \in LastSeenIds(camera_last_seen')
                  /\ LastSeenOf(camera_last_seen', c) = get_bangladesh_timestamp(now)
                  /\ c \in DOMAIN cameras'
                  /\ cameras'[c].status = "online"
                  /\ cameras'[c].id = c
                  /\ IF c \in DOMAIN cameras
                     THEN /\ cameras'[c].name = cameras[c].name
                          /\ cameras'[c].role = cameras[c].role
                     ELSE cameras'[c].role = "none"
                  /\ \A d \in DOMAIN cameras \ {c} : cameras'[d] = cameras[d]]_vars
\* camera 0 had the role "entry" and had been found offline by a sweep when
\* the second stream opened it: it is online again, still an entry camera
C25_Witness ==
    /\ At(2, "read")
    /\ proc[E].offline_found > 0
    /\ CamId(0) \in DOMAIN cameras
    /\ cameras[CamId(0)].role = "entry"
    /\ cameras[CamId(0)].status = "online"
    /\ now = MaxTime
    /\ LastSeenOf(camera_last_seen, CamId(0)) = get_bangladesh_timestamp(now)

\* C26: a stream touches its camera on every sampled frame: when the read of a
\* 3rd, 6th, ... good frame returns, the camera's last-seen time is the
\* current time.
C26_TouchOnSampledTick ==
    [][\A s \in Streams :
          ReadSucceeds(s) /\ Sampled(proc'[s].frame_skip) =>
              LastSeenOf(camera_last_seen', CamId(proc[s].camera_index))
                  = get_bangladesh_timestamp(now)]_vars

\* camera c is online after this step and was not (or was not registered) before
BecomesOnline(c) ==
    /\ c \in DOMAIN cameras'
    /\ cameras'[c].status = "online"
    /\ c \in DOMAIN cameras => cameras[c].status # "online"
\* camera c is offline after this step and was not before
BecomesOffline(c) ==
    /\ c \in DOMAIN cameras'
    /\ cameras'[c].status = "offline"
    /\ c \in DOMAIN cameras => cameras[c].status # "offline"
\* C27: a camera's status becomes "online" only in a step that also sets its
\* last-seen time to the current time, and "offline" only in a step of the
\* sweep that found its last-seen age above 2 minutes.
C27_StatusOnlyByLastSeen ==
    [][\A c \in DOMAIN cameras' :
          /\ BecomesOnline(c) =>
                 /\ c \in LastSeenIds(camera_last_seen')
                 /\ LastSeenOf(camera_last_seen', c) = get_bangladesh_timestamp(now)
          /\ BecomesOffline(c) =>
                 /\ At(E, "sweep")
                 /\ Head(proc[E].sweep_queue)[1] = c
                 /\ IsOffline(proc[E].sweep_time, Head(proc[E].sweep_queue)[2])]_vars

\* ---------------------------------------------------------------------------
\* Camera roles and the records: a stream of camera 0 and POST /process_frame
\* insert records while PATCH /cameras/{id} changes roles.
InitRoles == InitWith(0, 0) /\ server_utc_hours = DhakaUtcHours
NextRoles ==
    \/ StreamStart(1, {0}) \/ StreamFrame(1, RoleFrames)
    \/ process_frame(RoleRequests)
    \/ update_camera(RoleRequests)
SpecRoles == InitRoles /\ [][NextRoles]_vars

\* the role of a registered camera that is an entry or an exit camera, else None
RoleOrNull(cams, camera_id) ==
    IF camera_id \in DOMAIN cams /\ cams[camera_id].role \in {"entry", "exit"}
    THEN cams[camera_id].role
    ELSE None
\* this step is stream s inserting a record
StreamInserts(s) ==
    /\ proc[s].pc \in {"face_insert", "body_insert"}
    /\ proc'[s] # proc[s]
\* this step is POST /process_frame inserting a record
FrameInserts == At(E, "pf_insert") /\ proc'[E].pc = "pf_trunc"
\* a step that changes the registry leaves the attendance list as it is
RecordsKeepEntryType == cameras' # cameras => attendance' = attendance
\* C23: the entry_type of a record is the role its camera has in the registry
\* at the moment of the insert (None for "none" or an unregistered camera), and
\* a later PATCH leaves the records unchanged.
C23_EntryTypeAtInsert ==
    [][/\ \A s \in Streams :
              StreamInserts(s) =>
                  attendance'[1].entry_type =
                      RoleOrNull(cameras, CamId(proc[s].camera_index))
       /\ FrameInserts => attendance'[1].entry_type = RoleOrNull(cameras, CLIENT_CAM)
       /\ RecordsKeepEntryType]_vars
\* C23 (amended): a stream reads the role of its camera once per sampled frame,
\* at the start of the recording block, and every record of that frame carries
\* it; POST /process_frame reads the role at the insert; None stands for "none"
\* and for an unregistered camera; a later PATCH leaves the records unchanged.
C23_EntryTypeAtTick ==
    [][/\ \A s \in Streams :
              /\ At(s, "record") /\ proc'[s].pc # "record" =>
                     proc'[s].entry_type = RoleOrNull(cameras, CamId(proc[s].camera_index))
              /\ StreamInserts(s) =>
                     /\ attendance'[1].entry_type = proc[s].entry_type
                     /\ proc'[s].entry_type = proc[s].entry_type
       /\ FrameInserts => attendance'[1].entry_type = RoleOrNull(cameras, CLIENT_CAM)
       /\ RecordsKeepEntryType]_vars
\* a stream record was inserted as an "entry" record and its camera has been
\* given the role "exit" since; a client record followed
C23_Witness ==
    /\ Len(attendance) = 2
    /\ attendance[1].camera_id = CLIENT_CAM
    /\ attendance[1].entry_type = None
    /\ attendance[2].camera_id = CamId(0)
    /\ attendance[2].entry_type = "entry"
    /\ cameras[CamId(0)].role = "exit"

\* ---------------------------------------------------------------------------
\* the record at the head of the list carries `name`, with the employee id
\* "Unknown" exactly if the name is "Unknown"
LoggedAs(list, name) ==
    /\ list[1].name = name
    /\ list[1].employee_id = "Unknown" <=> name = "Unknown"
InAttendanceWrite(p) ==
    \/ proc[p].pc \in {"face_trunc", "body_trunc", "pf_trunc"}
    \/ proc[p].pc = "body_insert" /\ proc[p].loop_i > 1
\* C29: no two execution units are inside an insert-and-truncate of _attendance
\* at the same time.
C29_SingleWriter ==
    \A p, q \in Procs : InAttendanceWrite(p) /\ InAttendanceWrite(q) => p = q

\* ---------------------------------------------------------------------------
\* One stream whose recording block can raise at any of its statements.
InitRecordError == InitWith(0, 0) /\ server_utc_hours = DhakaUtcHours
NextRecordError ==
    \/ generate_mjpeg_for_camera(1, {0}, StreamFrames)
    \/ RecordFail(1)
SpecRecordError == InitRecordError /\ [][NextRecordError]_vars

\* this step is a statement of the recording block of stream s raising
RecordFails(s) == proc'[s].record_failed # proc[s].record_failed
\* the recording block of the current frame of stream s has raised
RecordFailed(s) == proc[s].frame_skip > 0 /\ proc[s].record_failed = proc[s].frame_skip
InitPipelines ==
    /\ InitStores(0, 0)
    /\ server_utc_hours = DhakaUtcHours
    /\ devices = NoDevices
    /\ open_result = NoResult
    /\ processor = ProcessorInit
    /\ sample \in {[NoSample EXCEPT !.bodies = bodies] : bodies \in FrameOutcomes}
NextPipelines == SampleStreamTick \/ SampleProcessFrame
SpecPipelines == InitPipelines /\ [][NextPipelines]_vars

\* the employee ids and names of a list of records
IdsAndNames(records) ==
    [i \in 1..Len(records) |-> <<records[i].employee_id, records[i].name>>]
\* C28: for the same detection outcome a sampled stream tick and
\* POST /process_frame insert as many records, with the same employee ids and
\* names, and count the same unknown faces into the minute bucket.
C28_SamePipeline ==
    sample.tick.ran /\ sample.request.ran =>
        /\ IdsAndNames(sample.tick.records) = IdsAndNames(sample.request.records)
        /\ sample.tick.increments = sample.request.increments

\* ---------------------------------------------------------------------------
\* The two clocks of the camera sweep: touch writes get_bangladesh_timestamp()
\* (lines 67-92, 1387) and the sweep reads datetime.now() and drops the zone of
\* the stored value (lines 1421-1425).
\* C34: a sweep finds a camera offline exactly when more than 2 minutes of real
\* time have passed since its last touch, whatever the server's time zone.
C34_SameTimeBase ==
    [][At(E, "sweep") /\ proc'[E] # proc[E] =>
        LET last_seen == Head(proc[E].sweep_queue)[2]
        IN  (proc'[E].offline_found = proc[E].offline_found + 1)
                <=> (RealAge(proc[E].sweep_time, last_seen)
                        > OfflineMinutes * TicksPerMinute)]_vars

\* ---------------------------------------------------------------------------
\* C35: the camera registry and the last-seen map have the same key set.
C35_SameKeySet ==
    DOMAIN cameras = LastSeenIds(camera_last_seen)

\* ---------------------------------------------------------------------------
\* A camera that goes silent and comes back: two viewers open camera 0 (each
\* open touches CAM-0), GET /health sweeps, PATCH /alerts/{id} updates an
\* alert, and time passes.  The server runs on Dhaka time.
InitComeback == InitRegistry
NextComeback ==
    \/ \E s \in Streams : StreamStart(s, {0})
    \/ _check_camera_offline(AlertRequests)
    \/ update_alert(AlertRequests)
    \/ Tick
SpecComeback == InitComeback /\ [][NextComeback]_vars

\* this step is the first of a request handler (here GET /health, which writes
\* no alert in that step, or PATCH /alerts/{id})
HandlerStarts ==
    At(E, "idle") /\ proc'[E].nreq = proc[E].nreq + 1
\* the alert at position i is in the list after the step, as it was, behind
\* the alerts the step inserted (or it fell off the capped list)
AlertKept(i) ==
    LET k == i + (alert_inserts' - alert_inserts)
    IN  k <= Len(alerts') => alerts'[k] = alerts[i]
\* C38: a touch changes no alert, and an active offline alert of a camera stays
\* as it is in every step that is not PATCH /alerts/{id}, also when a touch
\* sets its camera online again.
C38_TouchKeepsAlerts ==
    [][/\ (\E s \in Streams : StreamTouches(s)) =>
              alerts' = alerts /\ next_uuid' = next_uuid
       /\ \A c \in CameraIds : \A i \in ActiveCameraAlerts(c) :
              ~HandlerStarts => AlertKept(i)]_vars
\* the sweep's alert for CAM-0 is still active after a later touch set the
\* camera online again
C38_Witness ==
    /\ proc[E].offline_found > 0
    /\ CamId(0) \in DOMAIN cameras
    /\ cameras[CamId(0)].status = "online"
    /\ SweepAlertOf(CamId(0), {"active"})
    /\ \E s \in Streams : At(s, "read")

\* ---------------------------------------------------------------------------
\* Instance state of the shared FaceRecognizer: draw_faces, called by the
\* stream for its overlay (line 1031), assigns self.detected_faces[name] (or
\* creates self.detected_faces) once per face result (lines 583-586).  Stream s
\* is about to do so:
WritesDetectedFaces(s) ==
    At(s, "overlay") /\ proc[s].last_face_results # <<>>
\* C36: a stream writes instance state of the shared engines only while it
\* holds _detector_lock, so no two streams write it at the same time.
C36_EngineStateUnderLock ==
    /\ \A s \in Streams : WritesDetectedFaces(s) => detector_lock = s
    /\ \A s, r \in Streams : WritesDetectedFaces(s) /\ WritesDetectedFaces(r) => s = r

\* ---------------------------------------------------------------------------
\* Viewers of one camera: GET /video_feed/{camera_index} returns
\* StreamingResponse(generate_mjpeg_for_camera(camera_index)) (lines 1082-1090),
\* one generator per request.
\* the number of attendance records of camera c
RecordsOf(c) ==
    Cardinality({i \in 1..Len(attendance) : attendance[i].camera_id = c})
\* the streams that view camera c
ViewersOf(c) ==
    {s \in Streams : proc[s].pc # "idle" /\ CamId(proc[s].camera_index) = c}
\* the number of sampled frames a viewer of camera c has read so far, at most
SampledFramesOf(c) ==
    IF ViewersOf(c) = {} THEN 0
    ELSE LET s == CHOOSE v \in ViewersOf(c) :
                      \A u \in ViewersOf(c) : proc[u].frame_skip <= proc[v].frame_skip
         IN  proc[s].frame_skip \div detection_interval
\* the most records one viewer inserts for one sampled frame: one per face
\* result, or one per body when there is no face (lines 1040-1063)
RecordsPerSampledFrame ==
    IF MaxFaces > 0 THEN MaxBodies * MaxFaces ELSE MaxBodies
\* C37: the attendance records of a camera are those a single viewer yields:
\* per sampled frame of the camera at most what one viewer inserts for it,
\* however many viewers are connected.
C37_RecordsIndependentOfViewers ==
    \A c \in CameraIds \ {CLIENT_CAM} :
        RecordsOf(c) <= RecordsPerSampledFrame * SampledFramesOf(c)

\* ---------------------------------------------------------------------------
\* The cycle of a frame in the read loop (lines 966-1073).
\* C32 as stated: every good frame is emitted: whenever the stream is back at
\* the read, the last frame it read has been emitted.
C32_EveryFrameEmitted ==
    \A s \in Streams : At(s, "read") => proc[s].last_emitted = proc[s].frame_skip
\* the places of the attendance block
RecordPcs == {"record", "face_insert", "face_trunc", "body_insert", "body_trunc"}
\* this step emits a chunk of stream s
Emits(s) == proc[s].pc # "yielded" /\ proc'[s].pc = "yielded"
\* C32 (amended): a chunk is emitted only for the frame read last, after its
\* overlay and its encoding, each frame at most once and in capture order (a
\* frame whose encoding fails, or on which an engine call raises, is not
\* emitted); the overlay follows the read (reuse) or the detection (sample),
\* the encoding follows the overlay or the attendance block; a failed read
\* emits and records nothing.
C32_EmittedAtMostOnce ==
    /\ [](\A s \in Streams :
             /\ proc[s].last_emitted <= proc[s].frame_skip
             /\ At(s, "yielded") => /\ proc[s].last_emitted = proc[s].frame_skip
                                    /\ DrawnFromLast(s))
    /\ [][\A s \in Streams :
             /\ Emits(s) =>
                    /\ At(s, "encode")
                    /\ proc'[s].frame_skip = proc[s].frame_skip
                    /\ proc'[s].last_emitted = proc[s].frame_skip
                    /\ proc[s].last_emitted < proc[s].frame_skip
             /\ proc'[s].last_emitted # proc[s].last_emitted => Emits(s)
             /\ ~At(s, "encode") /\ proc'[s].pc = "encode" =>
                    proc[s].pc \in {"overlay"} \cup RecordPcs
             /\ ~At(s, "overlay") /\ proc'[s].pc = "overlay" =>
                    proc[s].pc \in {"read", "faces_loop"}
             /\ ReadFails(s) =>
                    /\ proc'[s].pc \in {"read", "reopen"}
                    /\ proc'[s].last_emitted = proc[s].last_emitted
                    /\ UNCHANGED <<attVars, alertVars, cameraVars>>]_vars
\* the stream has read three frames and has just emitted the third, a sampled
\* frame, after its overlay, its attendance block and its encoding
C32_Witness ==
    /\ At(1, "yielded")
    /\ proc[1].frame_skip = 3
    /\ proc[1].last_emitted = 3
    /\ proc[1].failure_count = 0

\* ---------------------------------------------------------------------------
\* Concurrent viewers: two GET /video_feed/0 streams, each in its own
\* threadpool thread; stream 1 also meets unreadable frames and reopens.
\* A thread that can take a step takes one (the consumer stays connected or
\* leaves), an engine call returns or raises, and a thread blocked in
\* `with _detector_lock:` gets the lock when it is free again and again.
InitViewers == InitEngine
ViewerStep(s) ==
    \/ StreamStart(s, {0})
    \/ StreamFrame(s, ViewerFrames)
    \/ s = 1 /\ StreamRecovery(s)
LockAcquire(s) == GD_Acquire(s) \/ DetectAcquire(s) \/ FacesAcquire(s)
NextViewers == \E s \in Streams : ViewerStep(s)
SpecViewers ==
    /\ InitViewers
    /\ [][NextViewers]_vars
    /\ \A s \in Streams : WF_vars(ViewerStep(s)) /\ SF_vars(LockAcquire(s))

\* the places where a stream is inside `with _detector_lock:`: the construction
\* of the engines and the engine calls
HoldsLockAt == {"gd_body", "gd_face", "detect", "faces"}
C31_ViewersKeepReceiving ==
    \A s \in Streams :
        (At(s, "read") /\ proc[s].frame_skip < ViewerFrames)
            ~> (At(s, "yielded") \/ proc[s].frame_skip = ViewerFrames)

\* ---------------------------------------------------------------------------
\* The capture handles of the open procedures: each is called once on machines
\* where a backend can also open the camera and then raise in cap.read().
HandleOutcomes == Outcomes \cup {ReadRaises}
HandleWorlds ==
    [source : {"unset"},
     requested : CameraIndexes,
     native : UNION {[1..n -> HandleOutcomes] : n \in 1..2},
     plain : {[i \in ProbeIndexes |-> o] : o \in HandleOutcomes \ {"raises"}}]
InitHandles ==
    /\ InitStores(0, 0)
    /\ server_utc_hours = DhakaUtcHours
    /\ devices \in HandleWorlds
    /\ open_result = NoResult
    /\ processor = ProcessorInit
    /\ sample = NoSample
NextHandles == OpenByIndexCall \/ OpenDefaultCall
SpecHandles == InitHandles /\ [][NextHandles]_vars

\* C40: a stream has at most one open capture: when its open by index returns
\* or raises, every capture opened by a failed attempt has been released.
C40_AttemptsReleased ==
    open_result.opener = "by_index" => open_result.unreleased = 0

\* ---------------------------------------------------------------------------
\* The stand-alone camera processor: main() constructs an
\* OptimizedCameraProcessor and calls run() (optimized_camera.py lines 242-251).
InitProcessor == InitRegistry
NextProcessor == run
SpecProcessor == InitProcessor /\ [][NextProcessor]_vars

\* run() is over: it returned, or an exception left it
RunOver == processor.pc \in {"done", "raised"}
\* C39: whenever the main loop of run() has been left and run() is over,
\* running is False, the worker thread has ended and the capture is released.
C39_CleanupOnEveryExit ==
    RunOver =>
        /\ ~processor.running
        /\ processor.thread = "ended"
        /\ processor.cap = "released"

====
